---- MODULE Spec2Model ----
(***************************************************************************)
(* Model of the Grant Cardone download scripts                             *)
(* (src/grant-cardone-downloads/*.py).                                     *)
(*                                                                         *)
(* Text is modelled as a sequence of characters; a character is a token    *)
(* (a one-character string, or the name of a code point).  URLs are        *)
(* atomic strings: the code only copies and compares them.                 *)
(***************************************************************************)
EXTENDS Naturals, Integers, Sequences, FiniteSets, TLC

(***************************************************************************)
(* Character classes of Python's re module for str patterns.               *)
(***************************************************************************)

\* The decimal digits, indexed by value + 1.
Digits == <<"0", "1", "2", "3", "4", "5", "6", "7", "8", "9">>

\* ASCII letters and digits that occur in the modelled titles.
AsciiAlnum == {"a", "b", "H", "e", "l", "o", "W", "r", "d", "V", "i"}
                 \cup {Digits[k] : k \in 1..10}

\* \w for a str pattern: ASCII letters and digits, the underscore, and every
\* non-ASCII alphanumeric (here LATIN SMALL LETTER E WITH ACUTE).
WordChars == AsciiAlnum \cup {"_", "U+00E9"}

\* \s, which is also what str.strip() removes.
SpaceChars == {" ", "\t"}

\* Characters outside [\w\s-].
OtherChars == {"!", ",", "."}

IsWord(c) == c \in WordChars

IsSpace(c) == c \in SpaceChars

\* The class [-\s] of the second re.sub.
IsSep(c) == c = "-" \/ IsSpace(c)

(***************************************************************************)
(* The filename sanitizer, as written inline in every script:              *)
(*     safe_title = re.sub(r'[^\w\s-]', '', title).strip()                 *)
(*     safe_title = re.sub(r'[-\s]+', '-', safe_title)                     *)
(*     filename = f"{i:03d}-{safe_title}"                                  *)
(***************************************************************************)

\* re.sub(r'[^\w\s-]', '', s)
StripKeepAll(s) == s
StripNonWord(s) == SelectSeq(s, LAMBDA c : IsWord(c) \/ IsSep(c))

RECURSIVE LStrip(_)
LStrip(s) == IF s # <<>> /\ IsSpace(Head(s)) THEN LStrip(Tail(s)) ELSE s

RECURSIVE RStrip(_)
RStrip(s) ==
    IF s # <<>> /\ IsSpace(s[Len(s)]) THEN RStrip(SubSeq(s, 1, Len(s) - 1))
    ELSE s

\* str.strip()
Strip(s) == RStrip(LStrip(s))

RECURSIVE DropSeps(_)
DropSeps(s) == IF s # <<>> /\ IsSep(Head(s)) THEN DropSeps(Tail(s)) ELSE s

\* re.sub(r'[-\s]+', '-', s): every maximal run becomes one hyphen.
RECURSIVE CollapseEach(_)
CollapseEach(s) ==
    IF s = <<>> THEN <<>>
    ELSE IF IsSep(Head(s)) THEN <<"-">> \o CollapseEach(Tail(s))
    ELSE <<Head(s)>> \o CollapseEach(Tail(s))

RECURSIVE CollapseRuns(_)
CollapseRuns(s) ==
    IF s = <<>> THEN <<>>
    ELSE IF IsSep(Head(s)) THEN <<"-">> \o CollapseRuns(DropSeps(Tail(s)))
    ELSE <<Head(s)>> \o CollapseRuns(Tail(s))

\* The two re.sub steps: the stem of the file name.
SafeTitleSwapped(t) == StripNonWord(CollapseRuns(Strip(t)))
SafeTitle(t) == CollapseRuns(Strip(StripNonWord(t)))

RECURSIVE Decimal(_)
Decimal(n) ==
    IF n < 10 THEN <<Digits[n + 1]>>
    ELSE Decimal(n \div 10) \o <<Digits[(n % 10) + 1]>>

\* f"{i:03d}": at least three digits, zero-padded on the left.
Pad3One(n) == <<"0", "0", "1">>
Pad3(n) ==
    LET d == Decimal(n)
    IN  IF Len(d) >= 3 THEN d
        ELSE [k \in 1..(3 - Len(d)) |-> "0"] \o d

\* f"{i:03d}-{safe_title}"
FilenameNoIndex(i, t) == SafeTitle(t)
Filename(i, t) == Pad3(i) \o <<"-">> \o SafeTitle(t)

\* f"Video {i}", the default title
VideoUnnumbered(i) == <<"V", "i", "d", "e", "o">>
VideoN(i) == <<"V", "i", "d", "e", "o", " ">> \o Decimal(i)

(***************************************************************************)
(* JSON data.  An object is a function from its keys; a document is the    *)
(* parsed content of a file: its top-level kind and its list of records    *)
(* (the "videos" array of an object, or the elements of a bare array).     *)
(***************************************************************************)

Has(o, k) == k \in DOMAIN o

\* dict.get(k, default)
Get(o, k, default) == IF k \in DOMAIN o THEN o[k] ELSE default

\* a.get(k1) or a.get(k2) or ... or default, on URL strings
RECURSIVE FirstUrl(_, _, _)
FirstUrl(o, keys, default) ==
    IF keys = <<>> THEN default
    ELSE IF Get(o, Head(keys), "") # "" THEN o[Head(keys)]
    ELSE FirstUrl(o, Tail(keys), default)

\* the same on titles
RECURSIVE FirstTitle(_, _, _)
FirstTitle(o, keys, default) ==
    IF keys = <<>> THEN default
    ELSE IF Get(o, Head(keys), <<>>) # <<>> THEN o[Head(keys)]
    ELSE FirstTitle(o, Tail(keys), default)

\* ".%(ext)s", appended to every output name
ExtPlaceholder == <<".", "%(ext)s">>

(***************************************************************************)
(* GrantCardoneDownloader.process_video_data                               *)
(***************************************************************************)

\* What "for item in video_data" yields that is a dict: the elements of an
\* array; iterating an object yields its keys, which are strings.
DictItemsOfAny(video_data) == video_data.items
DictItems(video_data) ==
    IF video_data.kind = "array" THEN video_data.items ELSE <<>>

\* The number a record gets in process_video_data and
\* extract_videos_from_response: one more than the records kept so far.
NumberByInput(position, kept) == position
NumberByKept(position, kept) == kept + 1

RECURSIVE ProcessFrom(_, _, _)
ProcessFrom(items, k, processed_videos) ==
    IF k > Len(items) THEN processed_videos
    ELSE LET item == items[k]
             n == NumberByKept(k, Len(processed_videos))
             ttl == Get(item, "title", VideoN(n))
             src == Get(item, "src", "")
         IN  ProcessFrom(items, k + 1,
                 IF src # ""
                 THEN Append(processed_videos,
                          [title |-> ttl,
                           filename |-> Filename(n, ttl),
                           url |-> src,
                           type |-> Get(item, "type", "unknown")])
                 ELSE processed_videos)

ProcessVideoData(video_data) == ProcessFrom(DictItems(video_data), 1, <<>>)

(***************************************************************************)
(* AdvancedCardoneExtractor.extract_videos_from_response                   *)
(***************************************************************************)

UrlKeys == <<"video_url", "url", "stream_url", "download_url", "source_url">>

TitleKeys == <<"title", "name", "lesson_title", "video_title">>

\* process_item: a dict is appended when it has a URL, then its nested
\* containers are walked (the records here nest under "lessons" only).
ProcessNothing(list, videos) == videos
RECURSIVE ProcessItem(_, _)
RECURSIVE ProcessList(_, _)
ProcessItem(item, videos) ==
    LET video_url == FirstUrl(item, UrlKeys, "")
        n == NumberByKept(0, Len(videos))
        ttl == FirstTitle(item, TitleKeys, VideoN(n))
        own == IF video_url # ""
               THEN Append(videos,
                        [title |-> ttl,
                         filename |-> Filename(n, ttl),
                         url |-> video_url,
                         program |-> ""])
               ELSE videos
    IN  IF Has(item, "lessons") THEN ProcessList(item.lessons, own) ELSE own

ProcessList(list, videos) ==
    IF list = <<>> THEN videos
    ELSE ProcessList(Tail(list), ProcessItem(Head(list), videos))

ExtractVideosFromResponse(data) == ProcessList(data.items, <<>>)

(***************************************************************************)
(* The aria2c input file, a sequence of lines.                             *)
(***************************************************************************)

UriLine(url) == [kind |-> "uri", text |-> <<url>>]

OutLine(filename) == [kind |-> "out", text |-> filename \o ExtPlaceholder]

BlankLine == [kind |-> "blank", text |-> <<>>]

TextLine(t) == [kind |-> "text", text |-> t]

\* QuickStart and AutomatedScraper write URL, "  out=<file>", blank line.
\* (os.path.basename(os.path.join(dir, name)) is name: the sanitized name
\* has no slash.)
PlainEntry(url, filename) == <<UriLine(url), OutLine(filename), BlankLine>>

\* GrantCardoneMaster writes "  out=<file>\nn" and then "\n": the third
\* line of an entry is the line "n".
MasterEntry(url, filename) ==
    <<UriLine(url), OutLine(filename), TextLine(<<"n">>)>>

EntryOf(who, url, filename) ==
    IF who = "Master" THEN MasterEntry(url, filename)
    ELSE PlainEntry(url, filename)

\* The writing loop of create_aria2_input_file / download_with_aria2c: the
\* lines written, and the KeyError of video['url'] that ends it early.
WriteNoEntries(who, list, i) == [lines |-> <<>>, exc |-> "none"]
RECURSIVE WriteEntries(_, _, _)
WriteEntries(who, list, i) ==
    IF i > Len(list) THEN [lines |-> <<>>, exc |-> "none"]
    ELSE LET video == list[i]
             ttl == Get(video, "title", VideoN(i))
         IN  IF ~Has(video, "url") THEN [lines |-> <<>>, exc |-> "KeyError"]
             ELSE LET rest == WriteEntries(who, list, i + 1)
                  IN  [lines |-> EntryOf(who, video.url, Filename(i, ttl))
                                    \o rest.lines,
                       exc |-> rest.exc]

(***************************************************************************)
(* State.                                                                  *)
(***************************************************************************)

VARIABLES
    \* the sanitizer applied to two titles, and to its own output
    title, title2, safe_title, safe_title2, resafe, sanPc,
    \* the browser-side duplicate filter: the array it is given, its result,
    \* and which of the two copies ran
    pageVideos, uniqueVideos, ddPc,
    \* one run of one script:
    script,       \* which script runs
    pc,           \* where it is
    fs,           \* what the run has seen of each file ("unseen" before)
    tools,        \* what the run has seen of each external program
    source,       \* the video file it loaded: name, class and document
    videos,       \* the list of video records it works on
    i,            \* loop counter: records or endpoints handled so far
    successful,   \* the loop's success counter
    failed,       \* the loop's failure counter
    calls,        \* subprocess.run calls so far, in order
    conf,         \* who wrote aria2.conf ("none" before)
    inputFile,    \* aria2_downloads.txt: written or not, and its lines
    jsWritten,    \* complete_automation.js has been written
    printed,      \* messages printed so far
    exc           \* the uncaught exception that ended the run ("none")

sanVars == <<title, title2, safe_title, safe_title2, resafe, sanPc>>

ddVars == <<pageVideos, uniqueVideos, ddPc>>

runVars ==
    <<script, pc, fs, tools, source, videos, i, successful, failed, calls,
      conf, inputFile, jsWritten, printed, exc>>

VARIABLES
    \* the requests session of AdvancedCardoneExtractor:
    headers,             \* session.headers
    cookies,             \* session.cookies: records of name, value, domain
    \* extract_cookies_from_chrome:
    ckPc,                \* where it is
    chrome_profile_dir,  \* self.chrome_profile_dir ("none": None)
    disk,                \* the Cookies database, the temporary directory
                         \* and the copy in it
    ops,                 \* the file operations made so far, in order
    cursor,              \* the fetched rows not yet looked at
    cookies_found,       \* the local of that name
    ckResult,            \* what it returned ("none" before)
    \* get_auth_tokens_via_debugging and start_debugging_chrome:
    dbgPc,               \* where the innermost call is
    frames,              \* the calls that have not returned, outermost first
    relaunches,          \* Chrome processes started so far
    dbgRaised,           \* the exception caught last ("none" before)
    dbgResult,           \* what the outermost call returned ("none" before)
    \* load_auth_tokens:
    authPc,              \* where it is
    authFile,            \* grantcardone_auth.json: its class
    tokens,              \* the document loaded from it
    todo,                \* the localStorage items not yet looked at
    authResult,          \* what it returned ("none" before)
    authExc,             \* the exception it let through ("none")
    \* two runs in one directory:
    shRuns,              \* each run's script, list and position
    dirConf,             \* aria2.conf: whose text it holds ("absent")
    dirInput,            \* aria2_downloads.txt: its lines
    aria2cRead           \* what each run's aria2c read ("none" before)

sessVars == <<headers, cookies>>

ckVars ==
    <<ckPc, chrome_profile_dir, disk, ops, cursor, cookies_found, ckResult>>

dbgVars == <<dbgPc, frames, relaunches, dbgRaised, dbgResult>>

authVars == <<authPc, authFile, tokens, todo, authResult, authExc>>

shVars == <<shRuns, dirConf, dirInput, aria2cRead>>

auxVars == <<sessVars, ckVars, dbgVars, authVars, shVars>>

vars == <<sanVars, ddVars, runVars, auxVars>>

\* No session has been made.
SessIdle ==
    /\ headers = <<>>
    /\ cookies = {}

\* extract_cookies_from_chrome is not running.
CkIdle ==
    /\ ckPc = "idle"
    /\ chrome_profile_dir = "none"
    /\ disk = <<>>
    /\ ops = <<>>
    /\ cursor = <<>>
    /\ cookies_found = FALSE
    /\ ckResult = "none"

\* get_auth_tokens_via_debugging is not running.
DbgIdle ==
    /\ dbgPc = "idle"
    /\ frames = <<>>
    /\ relaunches = 0
    /\ dbgRaised = "none"
    /\ dbgResult = "none"

\* load_auth_tokens is not running.
AuthIdle ==
    /\ authPc = "idle"
    /\ authFile = "unseen"
    /\ tokens = <<>>
    /\ todo = <<>>
    /\ authResult = "none"
    /\ authExc = "none"

\* No two runs share a directory.
ShIdle ==
    /\ shRuns = <<>>
    /\ dirConf = "absent"
    /\ dirInput = <<>>
    /\ aria2cRead = <<>>

AuxIdle == SessIdle /\ CkIdle /\ DbgIdle /\ AuthIdle /\ ShIdle

\* The sanitizer is not running.
SanIdle ==
    /\ title = <<>>
    /\ title2 = <<>>
    /\ safe_title = <<>>
    /\ safe_title2 = <<>>
    /\ resafe = <<>>
    /\ sanPc = "idle"

\* The duplicate filter is not running.
DdIdle ==
    /\ pageVideos = <<>>
    /\ uniqueVideos = <<>>
    /\ ddPc = "idle"

(***************************************************************************)
(* The files and programs a run meets.  The run learns the class of a file *)
(* or the state of a program when it first looks, and it stays so until    *)
(* the user is asked to save the file anew or the program is installed.    *)
(***************************************************************************)

F_VIDEOS == "grantcardone_videos.json"
F_COMPLETE == "grantcardone_complete.json"
F_FOUND == "found_videos.json"
F_DATA == "video_data.json"
F_COURSES == "grantcardone_courses.json"
F_STAGE1JS == "stage1_library_scraper.js"

Files == {F_VIDEOS, F_COMPLETE, F_FOUND, F_DATA, F_COURSES, F_STAGE1JS}

\* A JSON file is absent, is not JSON, is an object whose "videos" (or
\* "courses") is missing or empty, is an object with a non-empty list, or is a
\* bare array.
JsonClasses == {"absent", "malformed", "empty", "nonempty", "array"}

Programs == {"yt-dlp", "aria2c", "brew"}

NoDoc == [kind |-> "none", items |-> <<>>]

NoSource == [file |-> "none", class |-> "absent", doc |-> NoDoc]

NoInputFile == [written |-> FALSE, lines |-> <<>>]

\* The classes a file can turn out to have.
SeenAs(f) == IF fs[f] = "unseen" THEN JsonClasses ELSE {fs[f]}

\* The states of a program: it runs ("ok"), it cannot be started
\* ("missing"), and for the ones whose exit status is looked at before the
\* download, it starts and exits non-zero ("fails").
ProgramStates(t) ==
    IF t = "yt-dlp" THEN {"ok", "missing"} ELSE {"ok", "missing", "fails"}

\* The states a program can turn out to be in.
FoundAs(t) == IF tools[t] = "unseen" THEN ProgramStates(t) ELSE {tools[t]}

\* stage1_library_scraper.js is there or not.
JsSeenAs ==
    IF fs[F_STAGE1JS] = "unseen" THEN {"absent", "present"}
    ELSE {fs[F_STAGE1JS]}

\* No script is running.
RunIdle ==
    /\ script = "none"
    /\ pc = "idle"
    /\ fs = [f \in Files |-> "unseen"]
    /\ tools = [t \in Programs |-> "unseen"]
    /\ source = NoSource
    /\ videos = <<>>
    /\ i = 0
    /\ successful = 0
    /\ failed = 0
    /\ calls = <<>>
    /\ conf = "none"
    /\ inputFile = NoInputFile
    /\ jsWritten = FALSE
    /\ printed = {}
    /\ exc = "none"

(***************************************************************************)
(* Inputs of the sanitizer.                                                *)
(***************************************************************************)

\* Longest enumerated title.
MaxTitleLen == 3

\* One character of each class, and the underscore.
Alphabet == {"a", "_", "-", " ", "!"}

HelloCommaWorld ==
    <<"H", "e", "l", "l", "o", ",", " ", "W", "o", "r", "l", "d", "!">>

HelloWorld == <<"H", "e", "l", "l", "o", " ", "W", "o", "r", "l", "d">>

\* Titles beyond the enumeration: the documented collision, a non-ASCII
\* letter, and runs of more than one separator.
ExtraTitles ==
    { HelloCommaWorld, HelloWorld,
      <<"U+00E9", "\t", "1">>,
      <<"a", " ", " ", "b">>,
      <<"a", " ", "-", " ", "b", ".">> }

Titles ==
    UNION {[1..n -> Alphabet] : n \in 0..MaxTitleLen} \cup ExtraTitles

\* What is left of a title when the characters the first re.sub deletes are
\* taken out and every run of whitespace and hyphens is reduced to a mark.
RECURSIVE RunShape(_)
RunShape(s) ==
    IF s = <<>> THEN <<>>
    ELSE IF IsSep(Head(s)) THEN <<"RUN">> \o RunShape(DropSeps(Tail(s)))
    ELSE <<Head(s)>> \o RunShape(Tail(s))

Shape(t) == RunShape(SelectSeq(t, LAMBDA c : c \notin OtherChars))

\* No run of whitespace and hyphens at either end.
InnerRunsOnly(t) ==
    LET sh == Shape(t)
    IN  sh = <<>> \/ (Head(sh) # "RUN" /\ sh[Len(sh)] # "RUN")

InitSan ==
    /\ title \in Titles
    /\ title2 \in {u \in Titles : Shape(u) = Shape(title)}
    /\ safe_title = <<>>
    /\ safe_title2 = <<>>
    /\ resafe = <<>>
    /\ sanPc = "input"
    /\ DdIdle
    /\ RunIdle
    /\ AuxIdle

\* The sanitizer run on both titles.
Sanitize ==
    /\ sanPc = "input"
    /\ safe_title' = SafeTitle(title)
    /\ safe_title2' = SafeTitle(title2)
    /\ sanPc' = "sanitized"
    /\ UNCHANGED <<title, title2, resafe, ddVars, runVars, auxVars>>

\* The sanitizer run on its own output.
Resanitize ==
    /\ sanPc = "sanitized"
    /\ resafe' = SafeTitle(safe_title)
    /\ sanPc' = "resanitized"
    /\ UNCHANGED <<title, title2, safe_title, safe_title2, ddVars, runVars,
                   auxVars>>

NextSan == Sanitize \/ Resanitize

SpecSan == InitSan /\ [][NextSan]_vars

(***************************************************************************)
(* Claims about the sanitizer.                                             *)
(***************************************************************************)

Chars(s) == {s[k] : k \in 1..Len(s)}

C5_Idempotent == sanPc = "resanitized" => resafe = safe_title

\* C5 witness: a title the sanitizer changes has been sanitized twice.
C5_Witness ==
    /\ sanPc = "resanitized"
    /\ safe_title # title
    /\ safe_title # <<>>
    /\ "-" \in Chars(safe_title)

\* C6 (as stated): the two Hello World titles have the stem Hello-World, and
\* two titles that differ only in deleted characters or in runs of whitespace
\* and hyphens have the same stem.
C6_SameShapeSameStem ==
    sanPc \in {"sanitized", "resanitized"} =>
        /\ title = HelloCommaWorld /\ title2 = HelloWorld =>
              /\ safe_title = <<"H", "e", "l", "l", "o", "-", "W", "o", "r", "l", "d">>
              /\ safe_title2 = safe_title
        /\ Shape(title) = Shape(title2) => safe_title = safe_title2

\* C6 (amended): the two Hello World titles have the stem Hello-World, and
\* two titles that differ only in deleted characters or in runs of whitespace
\* and hyphens between two word characters have the same stem.
C6_SameInnerShapeSameStem ==
    sanPc \in {"sanitized", "resanitized"} =>
        /\ title = HelloCommaWorld /\ title2 = HelloWorld =>
              /\ safe_title = <<"H", "e", "l", "l", "o", "-", "W", "o", "r", "l", "d">>
              /\ safe_title2 = safe_title
        /\ /\ Shape(title) = Shape(title2)
           /\ InnerRunsOnly(title)
           /\ InnerRunsOnly(title2)
           => safe_title = safe_title2

\* C6 witness: two different titles, one with a deleted character and the
\* other with a longer run, have been given the same stem.
C6_Witness ==
    /\ sanPc = "sanitized"
    /\ title # title2
    /\ InnerRunsOnly(title)
    /\ "RUN" \in Chars(Shape(title))
    /\ Len(title) # Len(title2)
    /\ safe_title = safe_title2

(***************************************************************************)
(* The duplicate filter of the generated browser scripts:                  *)
(*     pageVideos.filter((video, index, self) =>                           *)
(*         index === self.findIndex((v) => v.url === video.url))           *)
(***************************************************************************)

\* Most records in the filtered array.
MaxPageVideos == 3

Urls == {"http://x/a.mp4", "http://x/a.mp4?", "http://x/b.mp4"}

\* The title tells two records with one URL apart.
PageRecords == [url : Urls, title : {<<"a">>, <<"b">>}]

PageLists == UNION {[1..n -> PageRecords] : n \in 0..MaxPageVideos}

\* The URL without an empty query.
NoEmptyQuery(u) == IF u = "http://x/a.mp4?" THEN "http://x/a.mp4" ELSE u

\* v.url === video.url
SameUrlModuloQuery(u, v) == NoEmptyQuery(u) = NoEmptyQuery(v)
SameUrl(u, v) == u = v

\* self.findIndex((v) => v.url === url), 1-based; 0 when there is none.
RECURSIVE FindIndexFrom(_, _, _)
FindIndexFrom(self, url, k) ==
    IF k > Len(self) THEN 0
    ELSE IF SameUrl(self[k].url, url) THEN k
    ELSE FindIndexFrom(self, url, k + 1)

FindIndex(self, url) == FindIndexFrom(self, url, 1)

RECURSIVE FilterFrom(_, _)
FilterFrom(self, index) ==
    IF index > Len(self) THEN <<>>
    ELSE (IF index = FindIndex(self, self[index].url) THEN <<self[index]>>
          ELSE <<>>)
         \o FilterFrom(self, index + 1)

\* self.filter((video, index, self) => index === self.findIndex(...))
RemoveDuplicates(self) == FilterFrom(self, 1)

InitDedup ==
    /\ pageVideos \in PageLists
    /\ uniqueVideos = <<>>
    /\ ddPc = "input"
    /\ SanIdle
    /\ RunIdle
    /\ AuxIdle

\* extractVideosFromPage of the stage 2 script returns the filtered array.
ExtractVideosFromPage ==
    /\ ddPc = "input"
    /\ uniqueVideos' = RemoveDuplicates(pageVideos)
    /\ ddPc' = "stage2"
    /\ UNCHANGED <<pageVideos, sanVars, runVars, auxVars>>

\* extractVideos of the automation script returns the filtered array.
ExtractVideos ==
    /\ ddPc = "input"
    /\ uniqueVideos' = RemoveDuplicates(pageVideos)
    /\ ddPc' = "automation"
    /\ UNCHANGED <<pageVideos, sanVars, runVars, auxVars>>

NextDedup == ExtractVideosFromPage \/ ExtractVideos

SpecDedup == InitDedup /\ [][NextDedup]_vars

\* The positions of the records that are the first with their URL string.
FirstOfUrl(self) ==
    {k \in 1..Len(self) : \A j \in 1..(k - 1) : self[j].url # self[k].url}

\* The n-th smallest member of a set of positions.
NthOf(S, n) == CHOOSE k \in S : Cardinality({j \in S : j <= k}) = n

\* C9: the filter keeps, in document order, exactly the records that are the
\* first with their URL string: records whose URLs differ in any character
\* (a.mp4 and a.mp4?) are all kept, and of records with one URL string only
\* the first is kept.
C9_ExactUrlDedup ==
    ddPc \in {"stage2", "automation"} =>
        /\ Len(uniqueVideos) = Cardinality(FirstOfUrl(pageVideos))
        /\ \A n \in 1..Len(uniqueVideos) :
              uniqueVideos[n] = pageVideos[NthOf(FirstOfUrl(pageVideos), n)]
        /\ {uniqueVideos[n].url : n \in 1..Len(uniqueVideos)}
              = {pageVideos[k].url : k \in 1..Len(pageVideos)}

\* C9 witness: an array with a.mp4, a.mp4? and a second, differently titled
\* a.mp4 has been filtered to the first a.mp4 and the a.mp4?.
C9_Witness ==
    /\ ddPc = "stage2"
    /\ Len(pageVideos) = 3
    /\ pageVideos[1].url = "http://x/a.mp4"
    /\ pageVideos[2].url = "http://x/a.mp4?"
    /\ pageVideos[3].url = "http://x/a.mp4"
    /\ pageVideos[3].title # pageVideos[1].title
    /\ uniqueVideos = <<pageVideos[1], pageVideos[2]>>

(***************************************************************************)
(* The scripts.  Inputs of a run.                                          *)
(***************************************************************************)

\* Most records in a loaded video list.
MaxVideos == 2

\* Records as the url-keyed browser snippets save them: a titled video, a
\* lesson link whose title has the same stem, an untitled video, and a
\* record without a URL.
UrlItems ==
    { [url |-> "u1", title |-> <<"a", "!">>],
      [url |-> "u2", title |-> <<"a">>, type |-> "lesson-link"],
      [url |-> "u3"],
      [title |-> <<"b">>] }

\* Records as GrantCardoneDownloader's snippet saves them (src-keyed), and
\* a url-keyed record.
SrcItems ==
    { [src |-> "s1", title |-> <<"a", "!">>, type |-> "iframe"],
      [src |-> "s2", title |-> <<"a">>],
      [src |-> "s3"],
      [url |-> "u1", title |-> <<"b">>] }

\* Objects of an API response: a video, a video under other key names, a
\* course without a URL that nests an untitled lesson, and an object
\* without a URL.
ApiItems ==
    { [url |-> "u1", title |-> <<"a", "!">>],
      [video_url |-> "u2", url |-> "u4", name |-> <<"a">>],
      [title |-> <<"b">>, lessons |-> <<[stream_url |-> "u3"]>>],
      [title |-> <<"b">>] }

ItemsOf(who) ==
    IF who = "Downloader" THEN SrcItems
    ELSE IF who = "Advanced" THEN ApiItems
    ELSE UrlItems

ListsOf(S) == UNION {[1..n -> S] : n \in 0..MaxVideos}

\* The documents a file of a class can hold.
DocsOf(class, S) ==
    IF class = "nonempty"
    THEN {[kind |-> "object", items |-> l] : l \in ListsOf(S) \ {<<>>}}
    ELSE IF class = "empty" THEN {[kind |-> "object", items |-> <<>>]}
    ELSE IF class = "array"
    THEN {[kind |-> "array", items |-> l] : l \in ListsOf(S)}
    ELSE {NoDoc}

Scripts ==
    {"Downloader", "Interactive", "Advanced", "Master", "QuickStart",
     "Scraper"}

Init ==
    /\ script \in Scripts
    /\ pc = "start"
    /\ fs = [f \in Files |-> "unseen"]
    /\ tools = [t \in Programs |-> "unseen"]
    /\ source = NoSource
    /\ videos = <<>>
    /\ i = 0
    /\ successful = 0
    /\ failed = 0
    /\ calls = <<>>
    /\ conf = "none"
    /\ inputFile = NoInputFile
    /\ jsWritten = FALSE
    /\ printed = {}
    /\ exc = "none"
    /\ SanIdle
    /\ DdIdle
    /\ AuxIdle

\* A subprocess.run call: the command, the record it is for (0: none), the
\* output name it was given, and how it ended ("running" while it has not).
Call(cmd, rec, out, result) ==
    [cmd |-> cmd, rec |-> rec, out |-> out, result |-> result]

\* The last call has ended with result r: subprocess.run returns only
\* then.
StillRunning(r) == calls
Ended(r) == [calls EXCEPT ![Len(calls)].result = r]

\* The counters of the yt-dlp loops after a child that ended with result r:
\* exit status 0 counts as a success, everything else as a failure.
Successes(r, n) == IF r = "exit0" THEN n + 1 ELSE n

FailuresUncounted(r, n) == n
Failures(r, n) == IF r = "exit0" THEN n ELSE n + 1

\* The run ends with an uncaught exception.
Raise(e) ==
    /\ exc' = e
    /\ pc' = "crashed"

(***************************************************************************)
(* grant_cardone_downloader.py                                             *)
(***************************************************************************)

\* run() up to the input() of extract_videos_manually.  A tab without a
\* WebSocket URL makes extract_videos_from_tab return [].
D_CheckChrome ==
    /\ script = "Downloader"
    /\ pc = "start"
    /\ \E tab \in {"none", "tab", "tab_without_websocket"} :
          IF tab = "tab_without_websocket"
          THEN /\ printed' = printed \cup
                     {"Chrome remote debugging detected",
                      "No WebSocket URL found for tab",
                      "No videos found. Please check the extraction process."}
               /\ pc' = "done"
          ELSE /\ printed' = printed \cup
                     {IF tab = "tab" THEN "Chrome remote debugging detected"
                      ELSE "Falling back to manual extraction",
                      "MANUAL VIDEO EXTRACTION REQUIRED"}
               /\ pc' = "input"
    /\ UNCHANGED <<script, fs, tools, source, videos, i, successful, failed,
                   calls, conf, inputFile, jsWritten, exc, sanVars, ddVars,
                   auxVars>>

\* extract_videos_manually after input(): load video_data.json, process it;
\* run() then starts download_all_videos or reports that there is nothing.
D_Load ==
    /\ script = "Downloader"
    /\ pc = "input"
    /\ \E c \in SeenAs(F_DATA) : \E d \in DocsOf(c, SrcItems) :
          LET msg == IF c = "absent"
                     THEN {"Error: video_data.json file not found"}
                     ELSE IF c = "malformed"
                     THEN {"Error: Invalid JSON in video_data.json"}
                     ELSE {}
              vs == IF c \in {"absent", "malformed"} THEN <<>>
                    ELSE ProcessVideoData(d)
          IN  /\ fs' = [fs EXCEPT ![F_DATA] = c]
              /\ source' = [file |-> F_DATA, class |-> c, doc |-> d]
              /\ videos' = vs
              /\ IF vs # <<>>
                 THEN /\ printed' = printed \cup msg \cup
                            {"Found N videos to download",
                             "Starting download of N videos..."}
                      /\ pc' = "loop"
                 ELSE /\ printed' = printed \cup msg \cup
                            {"No videos found. Please check the extraction process."}
                      /\ pc' = "done"
    /\ UNCHANGED <<script, tools, i, successful, failed, calls, conf,
                   inputFile, jsWritten, exc, sanVars, ddVars, auxVars>>

\* download_video: subprocess.run(cmd, check=True) is called.  Only
\* CalledProcessError is caught: a yt-dlp that cannot be started raises
\* FileNotFoundError through download_all_videos and run.
D_DownloadVideo ==
    /\ script = "Downloader"
    /\ pc = "loop"
    /\ i < Len(videos)
    /\ \E t \in FoundAs("yt-dlp") :
          /\ tools' = [tools EXCEPT !["yt-dlp"] = t]
          /\ IF t = "missing"
             THEN /\ calls' = Append(calls,
                        Call("yt-dlp", i + 1,
                             videos[i + 1].filename \o ExtPlaceholder,
                             "spawn_error"))
                  /\ Raise("FileNotFoundError")
             ELSE /\ calls' = Append(calls,
                        Call("yt-dlp", i + 1,
                             videos[i + 1].filename \o ExtPlaceholder,
                             "running"))
                  /\ pc' = "wait"
                  /\ exc' = exc
    /\ UNCHANGED <<script, fs, source, videos, i, successful, failed, conf,
                   inputFile, jsWritten, printed, sanVars, ddVars, auxVars>>

\* yt-dlp exits (there is no timeout); download_all_videos counts and
\* sleeps one second.
D_Return ==
    /\ script = "Downloader"
    /\ pc = "wait"
    /\ \E r \in {"exit0", "nonzero"} :
          /\ calls' = Ended(r)
          /\ successful' = Successes(r, successful)
          /\ failed' = Failures(r, failed)
    /\ i' = i + 1
    /\ pc' = "loop"
    /\ UNCHANGED <<script, fs, tools, source, videos, conf, inputFile,
                   jsWritten, printed, exc, sanVars, ddVars, auxVars>>

\* The summary after the loop.
D_Summary ==
    /\ script = "Downloader"
    /\ pc = "loop"
    /\ i = Len(videos)
    /\ printed' = printed \cup {"DOWNLOAD SUMMARY"}
    /\ pc' = "done"
    /\ UNCHANGED <<script, fs, tools, source, videos, i, successful, failed,
                   calls, conf, inputFile, jsWritten, exc, sanVars, ddVars,
                   auxVars>>

(***************************************************************************)
(* interactive_extractor.py                                                *)
(***************************************************************************)

\* The file run() and download_collected_videos settle on:
\* grantcardone_videos.json when it exists, else found_videos.json.
InteractivePick(cv, cf) ==
    IF cv # "absent" THEN F_VIDEOS
    ELSE IF cf # "absent" THEN F_FOUND
    ELSE "none"

\* run() and download_collected_videos up to the loop.  found_videos.json
\* is looked at only when grantcardone_videos.json is absent.  A bare array
\* has no get(): AttributeError, which no except clause catches.
I_Run ==
    /\ script = "Interactive"
    /\ pc = "start"
    /\ \E cv \in SeenAs(F_VIDEOS) :
       \E cf \in (IF cv = "absent" THEN SeenAs(F_FOUND) ELSE {fs[F_FOUND]}) :
          LET file == InteractivePick(cv, cf)
              c == IF cv # "absent" THEN cv ELSE cf
          IN  /\ fs' = [fs EXCEPT ![F_VIDEOS] = cv, ![F_FOUND] = cf]
              /\ \E d \in DocsOf(c, UrlItems) :
                    /\ source' = [file |-> file, class |-> c, doc |-> d]
                    /\ CASE c = "absent" ->
                              /\ printed' = printed \cup
                                    {"No video data found. Showing extraction instructions..."}
                              /\ pc' = "done"
                              /\ UNCHANGED <<videos, exc>>
                         [] c = "malformed" ->
                              /\ printed' = printed \cup
                                    {"Found video data! Starting downloads...",
                                     "Invalid JSON in found_videos.json"}
                              /\ pc' = "done"
                              /\ UNCHANGED <<videos, exc>>
                         [] c = "array" ->
                              /\ printed' = printed \cup
                                    {"Found video data! Starting downloads..."}
                              /\ Raise("AttributeError")
                              /\ UNCHANGED videos
                         [] c = "empty" ->
                              /\ printed' = printed \cup
                                    {"Found video data! Starting downloads...",
                                     "No videos found in found_videos.json"}
                              /\ pc' = "done"
                              /\ UNCHANGED <<videos, exc>>
                         [] c = "nonempty" ->
                              /\ printed' = printed \cup
                                    {"Found video data! Starting downloads...",
                                     "Found N videos to download!"}
                              /\ videos' = d.items
                              /\ pc' = "loop"
                              /\ UNCHANGED exc
    /\ UNCHANGED <<script, tools, i, successful, failed, calls, conf,
                   inputFile, jsWritten, sanVars, ddVars, auxVars>>

\* One pass of the loop up to subprocess.run.  video['url'] of a record
\* without a url raises KeyError, uncaught; a lesson link is skipped with
\* continue; a yt-dlp that cannot be started is caught by except Exception.
I_Step ==
    /\ script = "Interactive"
    /\ pc = "loop"
    /\ i < Len(videos)
    /\ LET video == videos[i + 1]
           ttl == Get(video, "title", VideoN(i + 1))
           out == Filename(i + 1, ttl) \o ExtPlaceholder
       IN  IF ~Has(video, "url")
           THEN /\ Raise("KeyError")
                /\ UNCHANGED <<tools, i, failed, calls, printed>>
           ELSE IF Get(video, "type", "") = "lesson-link"
           THEN /\ printed' = printed \cup
                      {"Lesson link - will need manual access"}
                /\ i' = i + 1
                /\ UNCHANGED <<tools, pc, failed, calls, exc>>
           ELSE \E t \in FoundAs("yt-dlp") :
                   /\ tools' = [tools EXCEPT !["yt-dlp"] = t]
                   /\ IF t = "missing"
                      THEN /\ calls' = Append(calls,
                                 Call("yt-dlp", i + 1, out, "spawn_error"))
                           /\ failed' = failed + 1
                           /\ i' = i + 1
                           /\ UNCHANGED <<pc, exc, printed>>
                      ELSE /\ calls' = Append(calls,
                                 Call("yt-dlp", i + 1, out, "running"))
                           /\ pc' = "wait"
                           /\ UNCHANGED <<i, failed, exc, printed>>
    /\ UNCHANGED <<script, fs, source, videos, successful, conf, inputFile,
                   jsWritten, sanVars, ddVars, auxVars>>

\* yt-dlp exits, or the 300 s timeout kills it; the loop counts and sleeps.
I_Return ==
    /\ script = "Interactive"
    /\ pc = "wait"
    /\ \E r \in {"exit0", "nonzero", "timeout"} :
          /\ calls' = Ended(r)
          /\ successful' = Successes(r, successful)
          /\ failed' = Failures(r, failed)
    /\ i' = i + 1
    /\ pc' = "loop"
    /\ UNCHANGED <<script, fs, tools, source, videos, conf, inputFile,
                   jsWritten, printed, exc, sanVars, ddVars, auxVars>>

I_Summary ==
    /\ script = "Interactive"
    /\ pc = "loop"
    /\ i = Len(videos)
    /\ printed' = printed \cup {"DOWNLOAD SUMMARY"}
    /\ pc' = "done"
    /\ UNCHANGED <<script, fs, tools, source, videos, i, successful, failed,
                   calls, conf, inputFile, jsWritten, exc, sanVars, ddVars,
                   auxVars>>

(***************************************************************************)
(* advanced_extractor.py, from step 2 of run() on.                         *)
(***************************************************************************)

\* The endpoints get_video_library_data tries.
NumEndpoints == 10

\* One pass of the loop of get_video_library_data: the request fails or
\* brings no video data, or its JSON is run through
\* extract_videos_from_response and the result appended.  (At most MaxVideos
\* records are collected in all.)
A_TryEndpoint ==
    /\ script = "Advanced"
    /\ pc = "start"
    /\ i < NumEndpoints
    /\ \/ UNCHANGED videos
       \/ \E c \in {"nonempty", "array"} : \E data \in DocsOf(c, ApiItems) :
             LET found == ExtractVideosFromResponse(data)
             IN  /\ data.items # <<>>
                 /\ Len(videos) + Len(found) <= MaxVideos
                 /\ videos' = videos \o found
    /\ i' = i + 1
    /\ UNCHANGED <<script, pc, fs, tools, source, successful, failed, calls,
                   conf, inputFile, jsWritten, printed, exc, sanVars, ddVars,
                   auxVars>>

\* run() after get_video_library_data: nothing found, or download_videos.
A_LibraryDone ==
    /\ script = "Advanced"
    /\ pc = "start"
    /\ i = NumEndpoints
    /\ IF videos = <<>>
       THEN /\ printed' = printed \cup {"No video data found"}
            /\ pc' = "done"
       ELSE /\ printed' = printed \cup
                  {"Found N videos", "Downloading N videos..."}
            /\ pc' = "loop"
    /\ i' = 0
    /\ UNCHANGED <<script, fs, tools, source, videos, successful, failed,
                   calls, conf, inputFile, jsWritten, exc, sanVars, ddVars,
                   auxVars>>

\* One pass of the loop of download_videos up to subprocess.run; a yt-dlp
\* that cannot be started is caught by except Exception.  Nothing is counted.
A_Step ==
    /\ script = "Advanced"
    /\ pc = "loop"
    /\ i < Len(videos)
    /\ \E t \in FoundAs("yt-dlp") :
          /\ tools' = [tools EXCEPT !["yt-dlp"] = t]
          /\ IF t = "missing"
             THEN /\ calls' = Append(calls,
                        Call("yt-dlp", i + 1,
                             videos[i + 1].filename \o ExtPlaceholder,
                             "spawn_error"))
                  /\ printed' = printed \cup {"Error: title - exception"}
                  /\ i' = i + 1
                  /\ pc' = pc
             ELSE /\ calls' = Append(calls,
                        Call("yt-dlp", i + 1,
                             videos[i + 1].filename \o ExtPlaceholder,
                             "running"))
                  /\ pc' = "wait"
                  /\ UNCHANGED <<i, printed>>
    /\ UNCHANGED <<script, fs, source, videos, successful, failed, conf,
                   inputFile, jsWritten, exc, sanVars, ddVars, auxVars>>

\* yt-dlp exits, or the 300 s timeout kills it; the result is printed.
A_Return ==
    /\ script = "Advanced"
    /\ pc = "wait"
    /\ \E r \in {"exit0", "nonzero", "timeout"} :
          /\ calls' = Ended(r)
          /\ printed' = printed \cup
                {IF r = "exit0" THEN "Downloaded: title"
                 ELSE IF r = "nonzero" THEN "Failed: title"
                 ELSE "Timeout: title"}
    /\ i' = i + 1
    /\ pc' = "loop"
    /\ UNCHANGED <<script, fs, tools, source, videos, successful, failed,
                   conf, inputFile, jsWritten, exc, sanVars, ddVars, auxVars>>

A_Finish ==
    /\ script = "Advanced"
    /\ pc = "loop"
    /\ i = Len(videos)
    /\ printed' = printed \cup {"Download complete!"}
    /\ pc' = "done"
    /\ UNCHANGED <<script, fs, tools, source, videos, i, successful, failed,
                   calls, conf, inputFile, jsWritten, exc, sanVars, ddVars,
                   auxVars>>

(***************************************************************************)
(* The aria2c scripts: what their steps have in common.                    *)
(***************************************************************************)

\* The file a loader settles on, given the classes of the complete file
\* and of the videos file.
\* check_stage2_complete goes on to the videos file when the complete file
\* is absent, is not JSON, or has no videos.
MasterPick(cc, cv) ==
    IF cc \in {"nonempty", "array"} THEN F_COMPLETE
    ELSE IF cv \in {"nonempty", "array"} THEN F_VIDEOS
    ELSE "none"

\* QuickStart.download_with_aria2c takes the complete file when it exists.
QuickPick(cc, cv) ==
    IF cc # "absent" THEN F_COMPLETE
    ELSE IF cv # "absent" THEN F_VIDEOS
    ELSE "none"

ClassOf(file, cc, cv) ==
    IF file = F_COMPLETE THEN cc ELSE IF file = F_VIDEOS THEN cv ELSE "absent"

\* The input file is written (create_aria2_input_file, or the with block of
\* download_with_aria2c) and aria2c is started.  A KeyError leaves the file
\* partly written and ends the run; an aria2c that cannot be started is
\* reported.
WriteAndSpawn(who, list, aria2c, notFoundMsgs, msgs) ==
    LET w == WriteEntries(who, list, 1)
    IN  /\ inputFile' = [written |-> TRUE, lines |-> w.lines]
        /\ IF w.exc # "none"
           THEN /\ Raise(w.exc)
                /\ printed' = printed \cup msgs
                /\ UNCHANGED calls
           ELSE IF aria2c = "missing"
           THEN /\ calls' = Append(calls,
                      Call("aria2c", 0, <<>>, "spawn_error"))
                /\ printed' = printed \cup msgs \cup notFoundMsgs
                /\ pc' = "done"
                /\ UNCHANGED exc
           ELSE /\ calls' = Append(calls, Call("aria2c", 0, <<>>, "running"))
                /\ printed' = printed \cup msgs
                /\ pc' = "wait"
                /\ UNCHANGED exc

(***************************************************************************)
(* GRANT_CARDONE_MASTER.py                                                 *)
(***************************************************************************)

\* check_stage2_complete, then what run() does with its result: next is
\* the position run() goes to when there are no videos.
M_CheckStage2(next, msgs) ==
    \E cc \in SeenAs(F_COMPLETE) :
    \E cv \in (IF cc \in {"nonempty", "array"} THEN {fs[F_VIDEOS]}
               ELSE SeenAs(F_VIDEOS)) :
       LET file == MasterPick(cc, cv)
           c == ClassOf(file, cc, cv)
       IN  /\ fs' = [fs EXCEPT ![F_COMPLETE] = cc, ![F_VIDEOS] = cv]
           /\ \E d \in DocsOf(c, UrlItems) :
                 /\ source' = [file |-> file, class |-> c, doc |-> d]
                 /\ CASE c = "array" ->
                           /\ Raise("AttributeError")
                           /\ printed' = printed \cup msgs
                           /\ UNCHANGED videos
                      [] c = "nonempty" ->
                           /\ videos' = d.items
                           /\ printed' = printed \cup msgs \cup
                                 {"Stage 2 complete: N videos found"}
                           /\ pc' = "download"
                           /\ UNCHANGED exc
                      [] OTHER ->
                           /\ printed' = printed \cup msgs \cup
                                 {"Stage 2 data not found or invalid"}
                           /\ pc' = next
                           /\ UNCHANGED <<videos, exc>>

\* run() from its start: check_stage2_complete.
M_Run ==
    /\ script = "Master"
    /\ pc = "start"
    /\ M_CheckStage2("stage1", {})
    /\ UNCHANGED <<script, tools, i, successful, failed, calls, conf,
                   inputFile, jsWritten, sanVars, ddVars, auxVars>>

\* stage1_instructions up to its input(): the script file is opened with
\* no except clause around it.
M_Stage1Instructions(ck) ==
    \E js \in JsSeenAs :
       IF js = "absent"
       THEN /\ fs' = [fs EXCEPT ![F_COURSES] = ck, ![F_STAGE1JS] = js]
            /\ printed' = printed \cup
                  {"Stage 1 data not found or invalid",
                   "STAGE 1: Extract Course Links"}
            /\ Raise("FileNotFoundError")
       ELSE \* the user is asked for grantcardone_courses.json
            /\ fs' = [fs EXCEPT ![F_COURSES] = "unseen", ![F_STAGE1JS] = js]
            /\ printed' = printed \cup
                  {"Stage 1 data not found or invalid",
                   "STAGE 1: Extract Course Links"}
            /\ pc' = "input1"
            /\ UNCHANGED exc

M_DownloadAnyway(ck) ==
    /\ fs' = [fs EXCEPT ![F_COURSES] = ck]
    /\ printed' = printed \cup {"Stage 1 data not found or invalid"}
    /\ pc' = "download"
    /\ UNCHANGED exc

\* The end of run() without videos.
M_NoVideoData(ck) ==
    /\ fs' = [fs EXCEPT ![F_COURSES] = ck]
    /\ printed' = printed \cup
          {"Stage 1 data not found or invalid",
           "No video data found. Please complete the extraction steps."}
    /\ pc' = "done"
    /\ UNCHANGED exc

\* check_stage1_complete and what run() does with its result: with courses,
\* stage2_instructions up to its input(); without, stage1_instructions
\* after the first check and the end of run() after the second.
M_CheckStage1(first) ==
    \E ck \in SeenAs(F_COURSES) :
       CASE ck = "array" ->
               /\ fs' = [fs EXCEPT ![F_COURSES] = ck]
               /\ Raise("AttributeError")
               /\ UNCHANGED printed
          [] ck = "nonempty" ->
               \* the user is asked for grantcardone_videos.json
               /\ fs' = [fs EXCEPT ![F_COURSES] = ck,
                                   ![F_VIDEOS] = "unseen",
                                   ![F_COMPLETE] = "unseen"]
               /\ printed' = printed \cup
                     {"Stage 1 complete: N courses found",
                      "Found N courses from Stage 1",
                      "STAGE 2: Extract Video URLs"}
               /\ pc' = "input2"
               /\ UNCHANGED exc
          [] OTHER ->
               IF first THEN M_Stage1Instructions(ck) ELSE M_NoVideoData(ck)

\* run() after check_stage2_complete found nothing: check_stage1_complete,
\* then stage1_instructions or stage2_instructions.
M_Stage1 ==
    /\ script = "Master"
    /\ pc = "stage1"
    /\ M_CheckStage1(TRUE)
    /\ UNCHANGED <<script, tools, source, videos, i, successful, failed,
                   calls, conf, inputFile, jsWritten, sanVars, ddVars,
                   auxVars>>

\* run() after the input() of stage1_instructions.
M_AfterStage1 ==
    /\ script = "Master"
    /\ pc = "input1"
    /\ M_CheckStage1(FALSE)
    /\ UNCHANGED <<script, tools, source, videos, i, successful, failed,
                   calls, conf, inputFile, jsWritten, sanVars, ddVars,
                   auxVars>>

\* run() after the input() of stage2_instructions.
M_AfterStage2 ==
    /\ script = "Master"
    /\ pc = "input2"
    /\ M_CheckStage2("done",
          {"No video data found. Please complete the extraction steps."})
    /\ UNCHANGED <<script, tools, i, successful, failed, calls, conf,
                   inputFile, jsWritten, sanVars, ddVars, auxVars>>

\* How a subprocess.run of a program in state t ends at once, if it does.
ResultOf(t) ==
    IF t = "ok" THEN "exit0"
    ELSE IF t = "missing" THEN "spawn_error" ELSE "nonzero"

\* download_videos: check_aria2c (its result is not looked at),
\* create_aria2_config, create_aria2_input_file, and aria2c started.
\* brew is run with check=True and only CalledProcessError is caught.
M_DownloadVideos ==
    /\ script = "Master"
    /\ pc = "download"
    /\ \E a \in FoundAs("aria2c") :
       \E b \in (IF a = "ok" THEN {tools["brew"]} ELSE FoundAs("brew")) :
          LET version == Call("aria2c --version", 0, <<>>, ResultOf(a))
              brew == Call("brew install aria2", 0, <<>>, ResultOf(b))
              installed == a # "ok" /\ b = "ok"
              after == IF installed THEN "ok" ELSE a
              log == IF a = "ok" THEN <<version>> ELSE <<version, brew>>
              said == {"DOWNLOAD STAGE: N videos with 16 parallel streams"}
                      \cup (IF a = "ok" THEN {"aria2c detected and ready!"}
                            ELSE {"aria2c not found. Installing..."})
                      \cup (IF installed
                            THEN {"aria2c installed successfully!"}
                            ELSE {})
                      \cup (IF a # "ok" /\ b = "fails"
                            THEN {"Failed to install aria2c"}
                            ELSE {})
          IN  /\ tools' = [tools EXCEPT !["aria2c"] = after, !["brew"] = b]
              /\ IF a # "ok" /\ b = "missing"
                 THEN /\ calls' = log
                      /\ printed' = printed \cup said
                      /\ Raise("FileNotFoundError")
                      /\ UNCHANGED <<conf, inputFile>>
                 ELSE /\ conf' = "Master"
                      /\ LET w == WriteEntries("Master", videos, 1)
                         IN  /\ inputFile' =
                                   [written |-> TRUE, lines |-> w.lines]
                             /\ IF w.exc # "none"
                                THEN /\ Raise(w.exc)
                                     /\ calls' = log
                                     /\ printed' = printed \cup said
                                ELSE IF after = "missing"
                                THEN /\ calls' = Append(log,
                                           Call("aria2c", 0, <<>>,
                                                "spawn_error"))
                                     /\ printed' = printed \cup said \cup
                                           {"aria2c command failed"}
                                     /\ pc' = "done"
                                     /\ UNCHANGED exc
                                ELSE /\ calls' = Append(log,
                                           Call("aria2c", 0, <<>>,
                                                "running"))
                                     /\ printed' = printed \cup said
                                     /\ pc' = "wait"
                                     /\ UNCHANGED exc
    /\ UNCHANGED <<script, fs, source, videos, i, successful, failed,
                   jsWritten, sanVars, ddVars, auxVars>>

\* aria2c ends, or Ctrl+C stops it.
M_Return ==
    /\ script = "Master"
    /\ pc = "wait"
    /\ \E r \in {"exit0", "nonzero", "interrupted"} :
          /\ calls' = Ended(r)
          /\ printed' = printed \cup
                {IF r = "interrupted"
                 THEN "Downloads paused. Run again to resume."
                 ELSE "DOWNLOAD COMPLETE!"}
    /\ pc' = "done"
    /\ UNCHANGED <<script, fs, tools, source, videos, i, successful, failed,
                   conf, inputFile, jsWritten, exc, sanVars, ddVars, auxVars>>

(***************************************************************************)
(* QUICK_START.py                                                          *)
(***************************************************************************)

\* run(): check_files, then setup_aria2c and download_with_aria2c up to the
\* start of aria2c, or the steps to follow.
Q_Run ==
    /\ script = "QuickStart"
    /\ pc = "start"
    /\ conf' = "QuickStart"
    /\ \E ck \in SeenAs(F_COURSES), cv \in SeenAs(F_VIDEOS),
          cc \in SeenAs(F_COMPLETE) :
          LET file == QuickPick(cc, cv)
              c == ClassOf(file, cc, cv)
              found == {"Video data found! Proceeding to download..."}
          IN  /\ fs' = [fs EXCEPT ![F_COURSES] = ck, ![F_VIDEOS] = cv,
                                  ![F_COMPLETE] = cc]
              /\ \E d \in DocsOf(c, UrlItems) :
                    /\ source' = [file |-> file, class |-> c, doc |-> d]
                    /\ CASE file = "none" ->
                              /\ printed' = printed \cup
                                    {"FOLLOW THESE STEPS:",
                                     "After completing Steps 1 & 2, run this script again to download!"}
                              /\ pc' = "done"
                              /\ UNCHANGED <<videos, tools, calls, inputFile,
                                             exc>>
                         [] file # "none" /\ c = "malformed" ->
                              /\ printed' = printed \cup found \cup
                                    {"Invalid video data file"}
                              /\ pc' = "done"
                              /\ UNCHANGED <<videos, tools, calls, inputFile,
                                             exc>>
                         [] file # "none" /\ c = "array" ->
                              /\ printed' = printed \cup found
                              /\ Raise("AttributeError")
                              /\ UNCHANGED <<videos, tools, calls, inputFile>>
                         [] file # "none" /\ c = "empty" ->
                              /\ printed' = printed \cup found \cup
                                    {"No videos found in data file"}
                              /\ pc' = "done"
                              /\ UNCHANGED <<videos, tools, calls, inputFile,
                                             exc>>
                         [] file # "none" /\ c = "nonempty" ->
                              /\ videos' = d.items
                              /\ \E a \in FoundAs("aria2c") :
                                    /\ tools' = [tools EXCEPT
                                                    !["aria2c"] = a]
                                    /\ WriteAndSpawn("QuickStart", d.items, a,
                                          {"aria2c not found. Install with: brew install aria2c"},
                                          found \cup
                                          {"STEP 4: Download N videos"})
    /\ UNCHANGED <<script, i, successful, failed, jsWritten, sanVars,
                   ddVars, auxVars>>

\* aria2c ends.
Q_Return ==
    /\ script = "QuickStart"
    /\ pc = "wait"
    /\ \E r \in {"exit0", "nonzero"} : calls' = Ended(r)
    /\ printed' = printed \cup {"DOWNLOAD COMPLETE!"}
    /\ pc' = "done"
    /\ UNCHANGED <<script, fs, tools, source, videos, i, successful, failed,
                   conf, inputFile, jsWritten, exc, sanVars, ddVars, auxVars>>

(***************************************************************************)
(* stage2_automated_scraper.py                                             *)
(***************************************************************************)

\* run(): load_complete_data, then run_browser_automation, or
\* download_with_aria2c up to the start of aria2c.
S_Run ==
    /\ script = "Scraper"
    /\ pc = "start"
    /\ \E cc \in SeenAs(F_COMPLETE) : \E d \in DocsOf(cc, UrlItems) :
          /\ fs' = [fs EXCEPT ![F_COMPLETE] = cc]
          /\ source' = [file |-> F_COMPLETE, class |-> cc, doc |-> d]
          /\ CASE cc = "array" ->
                    /\ Raise("AttributeError")
                    /\ UNCHANGED <<videos, tools, calls, conf, inputFile,
                                   jsWritten, printed>>
               [] cc = "nonempty" ->
                    /\ videos' = d.items
                    /\ conf' = "Scraper"
                    /\ \E a \in FoundAs("aria2c") :
                          /\ tools' = [tools EXCEPT !["aria2c"] = a]
                          /\ WriteAndSpawn("Scraper", d.items, a,
                                {"aria2c not found. Install with: brew install aria2",
                                 "Videos saved to: downloads"},
                                {"Loaded N videos from automation",
                                 "Found N videos! Starting downloads..."})
                    /\ UNCHANGED jsWritten
               [] OTHER ->
                    /\ jsWritten' = TRUE
                    /\ printed' = printed \cup
                          {IF cc = "absent"
                           THEN "grantcardone_complete.json not found"
                           ELSE IF cc = "malformed"
                           THEN "Invalid JSON in grantcardone_complete.json"
                           ELSE "Loaded N videos from automation",
                           "AUTOMATION SCRIPT READY"}
                    /\ pc' = "done"
                    /\ UNCHANGED <<videos, tools, calls, conf, inputFile,
                                   exc>>
    /\ UNCHANGED <<script, i, successful, failed, sanVars, ddVars, auxVars>>

\* aria2c ends and its exit code is reported.
S_Return ==
    /\ script = "Scraper"
    /\ pc = "wait"
    /\ \E r \in {"exit0", "nonzero"} :
          /\ calls' = Ended(r)
          /\ printed' = printed \cup
                {IF r = "exit0"
                 THEN "All downloads completed successfully!"
                 ELSE "aria2c completed with exit code: N",
                 "Videos saved to: downloads"}
    /\ pc' = "done"
    /\ UNCHANGED <<script, fs, tools, source, videos, i, successful, failed,
                   conf, inputFile, jsWritten, exc, sanVars, ddVars, auxVars>>

(***************************************************************************)
(* A run of one of the scripts.                                            *)
(***************************************************************************)

Next ==
    \/ D_CheckChrome \/ D_Load \/ D_DownloadVideo \/ D_Return \/ D_Summary
    \/ I_Run \/ I_Step \/ I_Return \/ I_Summary
    \/ A_TryEndpoint \/ A_LibraryDone \/ A_Step \/ A_Return \/ A_Finish
    \/ M_Run \/ M_Stage1 \/ M_AfterStage1 \/ M_AfterStage2
    \/ M_DownloadVideos \/ M_Return
    \/ Q_Run \/ Q_Return
    \/ S_Run \/ S_Return

Spec == Init /\ [][Next]_vars

(***************************************************************************)
(* The yt-dlp loops.                                                       *)
(***************************************************************************)

YtScripts == {"Downloader", "Interactive", "Advanced"}

AriaScripts == {"Master", "QuickStart", "Scraper"}

FailedResults == {"nonzero", "timeout", "spawn_error"}

\* The calls made for record n of the list.
CallsOf(n) == {k \in DOMAIN calls : calls[k].rec = n}

IsLessonLink(video) == Get(video, "type", "") = "lesson-link"

\* Record n is one InteractiveExtractor passes over without a download.
Skipped(n) == script = "Interactive" /\ IsLessonLink(videos[n])

\* The run has ended, by returning or by an uncaught exception.
RunEnded == pc \in {"done", "crashed"}

\* C1: in each yt-dlp loop every invocation that fails (non-zero exit,
\* timeout, or yt-dlp cannot be started) has added exactly one to the failure
\* counter, and once the run has ended every record after a failed one has
\* been dispatched (or, being a lesson link, passed over by the loop).
C1_FailureCountedBatchGoesOn ==
    script \in YtScripts =>
        /\ failed = Cardinality({k \in DOMAIN calls :
                                    calls[k].result \in FailedResults})
        /\ RunEnded =>
              \A k \in DOMAIN calls :
                 calls[k].result \in FailedResults =>
                    \A n \in (calls[k].rec + 1)..Len(videos) :
                       CallsOf(n) # {} \/ Skipped(n)

\* C10 as stated: dispatch is sequential and in list order, and a loop that
\* has run to its end has spawned exactly one yt-dlp process for every
\* record of the list.
C10_OnePerRecordSequential ==
    script \in YtScripts =>
        /\ \A k \in DOMAIN calls :
              calls[k].result = "running" => k = Len(calls)
        /\ \A j, k \in DOMAIN calls : j < k => calls[j].rec < calls[k].rec
        /\ (pc = "done" /\ i = Len(videos)) =>
              \A n \in 1..Len(videos) : Cardinality(CallsOf(n)) = 1

\* C10: in the yt-dlp loops at most one yt-dlp process is spawned per video
\* record, in list order; at no time are two of them alive, and a record is
\* dispatched only after every earlier invocation has returned, timed out
\* or failed to start; every record the loop has gone past got exactly one
\* invocation, except the lesson links InteractiveExtractor passes over,
\* which get none.
C10_AtMostOnePerRecordSequential ==
    script \in YtScripts =>
        /\ \A k \in DOMAIN calls :
              /\ calls[k].cmd = "yt-dlp"
              /\ calls[k].rec \in 1..Len(videos)
              /\ calls[k].rec <= i + 1
              /\ ~Skipped(calls[k].rec)
              /\ calls[k].result = "running" => (k = Len(calls) /\ pc = "wait")
        /\ \A j, k \in DOMAIN calls : j < k => calls[j].rec < calls[k].rec
        /\ pc \in {"loop", "wait", "done", "crashed"} =>
              \A n \in 1..i :
                 Cardinality(CallsOf(n)) = (IF Skipped(n) THEN 0 ELSE 1)
        /\ pc = "wait" => CallsOf(i + 1) = {Len(calls)}

\* A run of InteractiveExtractor has gone through a list with a lesson link
\* and a video, and yt-dlp has run for the video.
C10_Witness ==
    /\ script = "Interactive"
    /\ pc = "done"
    /\ Len(videos) = 2
    /\ i = 2
    /\ Skipped(1)
    /\ Len(calls) = 1
    /\ calls[1].rec = 2
    /\ calls[1].result = "exit0"

(***************************************************************************)
(* Input files and output names.                                           *)
(***************************************************************************)

\* The files a script reads its video records from.
VideoFiles == {F_COMPLETE, F_VIDEOS, F_FOUND, F_DATA}

\* The run has looked for its video input and every file it has looked at
\* was missing or held an empty videos list (and the courses file, if
\* there is one, is a JSON object).
NoVideoInput ==
    /\ script # "Advanced"
    /\ \A f \in VideoFiles : fs[f] \in {"unseen", "absent", "empty"}
    /\ \E f \in VideoFiles : fs[f] \in {"absent", "empty"}
    /\ fs[F_COURSES] \notin {"malformed", "array"}

\* The lines by which a script says that it has no videos to download.
NoVideosMsgs ==
    {"No videos found. Please check the extraction process.",
     "Error: video_data.json file not found",
     "No video data found. Showing extraction instructions...",
     "No videos found in found_videos.json",
     "No video data found. Please complete the extraction steps.",
     "Stage 2 data not found or invalid",
     "FOLLOW THESE STEPS:",
     "No videos found in data file",
     "grantcardone_complete.json not found",
     "Loaded N videos from automation"}

\* C2: when a run has ended and its video input file was missing or held an
\* empty videos list, the run has said that there are no videos, has
\* started neither yt-dlp nor aria2c, and has not ended with an uncaught
\* exception.
C2_NoVideosReportedNoCrash ==
    (RunEnded /\ NoVideoInput) =>
        /\ printed \cap NoVideosMsgs # {}
        /\ \A k \in DOMAIN calls : calls[k].cmd \notin {"yt-dlp", "aria2c"}
        /\ exc = "none"

\* The "out=" lines of the aria2c input file.
OutLines == SelectSeq(inputFile.lines, LAMBDA l : l.kind = "out")

\* The output names a run has made, in order: the out= lines of the aria2c
\* input file, the -o arguments of InteractiveExtractor's yt-dlp calls, the
\* filenames of the processed records otherwise.
BatchNames ==
    IF script \in AriaScripts
    THEN [k \in DOMAIN OutLines |-> OutLines[k].text]
    ELSE IF script = "Interactive"
    THEN [k \in DOMAIN calls |-> calls[k].out]
    ELSE [k \in DOMAIN videos |-> videos[k].filename \o ExtPlaceholder]

\* The first four characters of a name, and the rest.
Prefix4(name) == SubSeq(name, 1, 4)

StemOf(name) == SubSeq(name, 5, Len(name))

PrefixFor(n) == Pad3(n) \o <<"-">>

\* The record can be downloaded: it has a URL under the key its script
\* reads and is not a lesson link.
Downloadable(r) ==
    /\ IF script = "Downloader" THEN Get(r, "src", "") # "" ELSE Has(r, "url")
    /\ ~IsLessonLink(r)

\* C3 as stated: for each input file, a document {"videos":[r]} with one
\* downloadable record r has given, once the run is past its writing of
\* names, exactly one output name, which begins with 001-.
C3_ObjectWithOneRecord ==
    LET d == source.doc
    IN  ( /\ source.file \in VideoFiles
          /\ d.kind = "object"
          /\ Len(d.items) = 1
          /\ Downloadable(d.items[1])
          /\ exc = "none"
          /\ RunEnded \/ pc = "wait" ) =>
            /\ DOMAIN BatchNames = {1}
            /\ Prefix4(BatchNames[1]) = PrefixFor(1)

\* C3: a document {"videos":[r]} with one record r that has a url gives one
\* output name beginning with 001- when it is grantcardone_videos.json,
\* grantcardone_complete.json or found_videos.json (for InteractiveExtractor
\* once the loop has passed r, r not being a lesson link); video_data.json
\* gives no record at all in that form, and gives one record named 001-...
\* when it is the bare array [r] and r has a non-empty src.
C3_OneRecordOneName ==
    LET d == source.doc
        one == source.file \in VideoFiles /\ Len(d.items) = 1
    IN  /\ (one /\ d.kind = "object" /\ script \in AriaScripts
                /\ inputFile.written /\ Has(d.items[1], "url")) =>
              /\ DOMAIN BatchNames = {1}
              /\ Prefix4(BatchNames[1]) = PrefixFor(1)
        /\ (one /\ d.kind = "object" /\ script = "Interactive" /\ i = 1
                /\ Downloadable(d.items[1])) =>
              /\ DOMAIN BatchNames = {1}
              /\ Prefix4(BatchNames[1]) = PrefixFor(1)
        /\ (source.file = F_DATA /\ d.kind = "object") => videos = <<>>
        /\ (one /\ d.kind = "array" /\ script = "Downloader"
                /\ Downloadable(d.items[1])) =>
              /\ DOMAIN BatchNames = {1}
              /\ Prefix4(BatchNames[1]) = PrefixFor(1)

\* GrantCardoneDownloader has loaded {"videos":[r]}, r with a src, and has
\* ended with no record to download.
C3_Witness ==
    /\ script = "Downloader"
    /\ pc = "done"
    /\ source.file = F_DATA
    /\ source.doc.kind = "object"
    /\ Len(source.doc.items) = 1
    /\ Downloadable(source.doc.items[1])
    /\ videos = <<>>
    /\ "No videos found. Please check the extraction process." \in printed

\* C7 as stated: two names of one batch with the same stem are the same
\* name.
C7_SameStemSameName ==
    \A j, k \in DOMAIN BatchNames :
       StemOf(BatchNames[j]) = StemOf(BatchNames[k]) =>
          BatchNames[j] = BatchNames[k]

\* C7: in every script that numbers its list in one pass (all but
\* AdvancedCardoneExtractor, which numbers each response from 001), the
\* output names of one batch are pairwise different, also when their stems
\* are the same: the index prefix tells them apart and no download
\* overwrites another.
C7_NamesOfABatchDiffer ==
    script # "Advanced" =>
        \A j, k \in DOMAIN BatchNames :
           j # k => BatchNames[j] # BatchNames[k]

\* aria2c has been started on an input file with two names of one stem.
C7_Witness ==
    /\ script \in AriaScripts
    /\ pc = "wait"
    /\ Len(OutLines) = 2
    /\ StemOf(BatchNames[1]) = StemOf(BatchNames[2])
    /\ Prefix4(BatchNames[1]) = PrefixFor(1)
    /\ Prefix4(BatchNames[2]) = PrefixFor(2)

\* The positions in video_data.json of the records process_video_data
\* keeps.
KeptPositions ==
    {n \in DOMAIN DictItems(source.doc) :
        Get(DictItems(source.doc)[n], "src", "") # ""}

\* C8 as stated, for the scripts that read a list from a file: every name
\* begins with the 3-digit position of its record in the input list and a
\* hyphen.
C8_PrefixIsInputPosition ==
    /\ script \in AriaScripts =>
          \A k \in DOMAIN BatchNames : Prefix4(BatchNames[k]) = PrefixFor(k)
    /\ script = "Interactive" =>
          \A k \in DOMAIN calls :
             Prefix4(calls[k].out) = PrefixFor(calls[k].rec)
    /\ (script = "Downloader" /\ source.file = F_DATA) =>
          \A k \in DOMAIN videos :
             Prefix4(BatchNames[k]) = PrefixFor(NthOf(KeptPositions, k))

\* The records the step has added to the list.
Added == SubSeq(videos', Len(videos) + 1, Len(videos'))

\* C8: every name begins with a 3-digit 1-based number and a hyphen.  In
\* the aria2c writers and InteractiveExtractor the number is the record's
\* position in the input list; in process_video_data it is the record's
\* position among the records kept; in AdvancedCardoneExtractor it is the
\* record's position among the records kept from its response.
C8_PrefixIsPositionWhereCounted ==
    /\ [](/\ script \in AriaScripts =>
                \A k \in DOMAIN BatchNames :
                   Prefix4(BatchNames[k]) = PrefixFor(k)
          /\ script = "Interactive" =>
                \A k \in DOMAIN calls :
                   Prefix4(calls[k].out) = PrefixFor(calls[k].rec)
          /\ script = "Downloader" =>
                \A k \in DOMAIN videos :
                   Prefix4(BatchNames[k]) = PrefixFor(k))
    /\ [][script = "Advanced" =>
             \A k \in DOMAIN Added :
                Prefix4(Added[k].filename) = PrefixFor(k)]_vars

\* process_video_data has dropped the first of two records and named the
\* second 001-.
C8_Witness ==
    /\ script = "Downloader"
    /\ pc = "loop"
    /\ Len(source.doc.items) = 2
    /\ KeptPositions = {2}
    /\ Len(videos) = 1
    /\ Prefix4(BatchNames[1]) = PrefixFor(1)

(***************************************************************************)
(* Progress.  The script takes its own steps; a child started with         *)
(* timeout=300 is waited for at most that long (interactive_extractor.py   *)
(* line 150, advanced_extractor.py line 505).  The other children          *)
(* (grant_cardone_downloader.py line 246 and the three aria2c calls) are   *)
(* waited for without a timeout: nothing makes their return happen.        *)
(***************************************************************************)

ProgramStep ==
    \/ D_CheckChrome \/ D_Load \/ D_DownloadVideo \/ D_Summary
    \/ I_Run \/ I_Step \/ I_Summary
    \/ A_TryEndpoint \/ A_LibraryDone \/ A_Step \/ A_Finish
    \/ M_Run \/ M_Stage1 \/ M_AfterStage1 \/ M_AfterStage2
    \/ M_DownloadVideos
    \/ Q_Run
    \/ S_Run

TimedReturn == I_Return \/ A_Return

SpecLive ==
    /\ Init
    /\ [][Next]_vars
    /\ WF_vars(ProgramStep)
    /\ WF_vars(TimedReturn)

\* C11: every run that has come to its download loop, or is waiting for a
\* downloader it has started, comes to its end (its summary, or at least
\* its return), also when a child process never exits of itself.
C11_EveryLoopReachesSummary ==
    (pc \in {"loop", "wait"}) ~> RunEnded

(***************************************************************************)
(* The aria2c batch.                                                       *)
(***************************************************************************)

\* The calls that start the aria2c download (not "aria2c --version").
DownloadCalls == {k \in DOMAIN calls : calls[k].cmd = "aria2c"}

C13_UrlOutBlankEntriesOnly ==
    (script \in AriaScripts /\ DownloadCalls # {}) =>
        /\ Len(inputFile.lines) = 3 * Len(videos)
        /\ \A k \in DOMAIN videos :
              /\ inputFile.lines[3 * k - 2] = UriLine(videos[k].url)
              /\ inputFile.lines[3 * k - 1].kind = "out"
              /\ inputFile.lines[3 * k] = BlankLine
        /\ \A l \in DOMAIN inputFile.lines :
              inputFile.lines[l].kind \in {"uri", "out", "blank"}

(***************************************************************************)
(* Missing tools.                                                          *)
(***************************************************************************)

\* The lines by which a script says that a tool could not be run.
ToolMissingMsgs ==
    {"Error: title - exception",
     "aria2c not found. Installing...",
     "Failed to install aria2c",
     "aria2c command failed",
     "aria2c not found. Install with: brew install aria2c",
     "aria2c not found. Install with: brew install aria2"}

\* A program could not be started (FileNotFoundError on the spawn).
SpawnFailed == \E k \in DOMAIN calls : calls[k].result = "spawn_error"

\* C14: when a program a script starts (yt-dlp, aria2c, brew) is missing,
\* the FileNotFoundError of the spawn does not escape the run; for aria2c
\* and brew the failure is reported.
C14_MissingToolCaught ==
    SpawnFailed =>
        /\ exc # "FileNotFoundError"
        /\ script \in AriaScripts => printed \cap ToolMissingMsgs # {}

\* check_aria2c has returned False: aria2c was not found and the install
\* failed.
CheckAria2cFalse == "Failed to install aria2c" \in printed

\* C15: when check_aria2c has returned False, GrantCardoneMaster has
\* written neither aria2.conf nor aria2_downloads.txt and has not started
\* the aria2c download.
C15_EarlyReturnWithoutAria2c ==
    (script = "Master" /\ CheckAria2cFalse) =>
        /\ conf = "none"
        /\ ~inputFile.written
        /\ DownloadCalls = {}

(***************************************************************************)
(* Malformed input files.                                                  *)
(***************************************************************************)

\* A malformed file taken as a missing one.
Treat(c) == IF c = "malformed" THEN "absent" ELSE c

\* The file the script settles on when its files have these classes.
PickOf(who, cc, cv, cf, cd) ==
    IF who = "Master" THEN MasterPick(cc, cv)
    ELSE IF who = "QuickStart" THEN QuickPick(cc, cv)
    ELSE IF who = "Interactive" THEN InteractivePick(cv, cf)
    ELSE IF who = "Scraper" THEN (IF cc # "absent" THEN F_COMPLETE ELSE "none")
    ELSE IF who = "Downloader" THEN (IF cd # "absent" THEN F_DATA ELSE "none")
    ELSE "none"

\* The file whose document the run went on with.
SettledFile == IF Treat(source.class) = "absent" THEN "none" ELSE source.file

\* The run has found one of its video files malformed.
SomeFileMalformed == \E f \in VideoFiles : fs[f] = "malformed"

\* C16: a run that has found an input file malformed has gone on as it
\* would have with that file missing: with the file it would then have
\* settled on, and, when that is none, without starting a downloader and
\* without an uncaught exception.
C16_MalformedAsMissing ==
    (SomeFileMalformed /\ (RunEnded \/ pc = "wait")) =>
        /\ \A cc \in SeenAs(F_COMPLETE), cv \in SeenAs(F_VIDEOS),
              cf \in SeenAs(F_FOUND), cd \in SeenAs(F_DATA) :
              SettledFile =
                 PickOf(script, Treat(cc), Treat(cv), Treat(cf), Treat(cd))
        /\ SettledFile = "none" =>
              /\ \A k \in DOMAIN calls :
                    calls[k].cmd \notin {"yt-dlp", "aria2c"}
              /\ exc = "none"

(***************************************************************************)
(* Records without a URL, bare arrays.                                     *)
(***************************************************************************)

\* The positions of the records of the list that have a url.
WithUrl == {k \in DOMAIN videos : Has(videos[k], "url")}

\* C17: a record without a URL field raises nothing and leaves the other
\* records their output: no run ends with the KeyError of video['url'], and
\* the aria2c input file, once written, has an out= line for every record
\* that has a url.
C17_UrlLessRecordDropped ==
    /\ exc # "KeyError"
    /\ (script \in AriaScripts /\ inputFile.written) =>
          Len(OutLines) = Cardinality(WithUrl)

\* C19: InteractiveExtractor, having read a file that holds a bare array
\* of records, goes on with these records as its list and without an
\* exception, as it does for an object with a videos array.
C19_BareArrayLoaded ==
    (script = "Interactive" /\ pc # "start"
        /\ source.class \in {"array", "nonempty"}) =>
        /\ exc # "AttributeError"
        /\ source.doc.items # <<>> => videos = source.doc.items

(***************************************************************************)
(* Default titles.                                                         *)
(***************************************************************************)

\* The title "Video n" and the output name it gives at number n.
VideoTitle(n) == <<"V", "i", "d", "e", "o", " ">> \o Decimal(n)

VideoName(n) ==
    PrefixFor(n) \o <<"V", "i", "d", "e", "o", "-">> \o Decimal(n)
        \o ExtPlaceholder

\* The record of video_data.json that became the k-th processed record.
KeptItem(k) == DictItems(source.doc)[NthOf(KeptPositions, k)]

\* C18 as stated, for the scripts that read a list from a file: a record
\* without a title gets the title "Video i", i being its position in the
\* input list.
C18_DefaultTitleByInputPosition ==
    /\ script \in AriaScripts =>
          \A k \in DOMAIN OutLines :
             ~Has(videos[k], "title") => BatchNames[k] = VideoName(k)
    /\ script = "Interactive" =>
          \A k \in DOMAIN calls :
             ~Has(videos[calls[k].rec], "title") =>
                calls[k].out = VideoName(calls[k].rec)
    /\ (script = "Downloader" /\ source.file = F_DATA) =>
          \A k \in DOMAIN videos :
             ~Has(KeptItem(k), "title") =>
                videos[k].title = VideoTitle(NthOf(KeptPositions, k))

\* C18: a record without a title gets the title "Video i".  In the aria2c
\* writers and InteractiveExtractor i is the record's position in the
\* input list; in process_video_data it is the record's position among the
\* records kept (the records with a non-empty src), and in
\* extract_videos_from_response its position among the records kept from
\* its response.  (No title of the modelled records
\* begins with V, so a title that does is the placeholder.)
C18_DefaultTitleWhereCounted ==
    /\ [](/\ script \in AriaScripts =>
                \A k \in DOMAIN OutLines :
                   ~Has(videos[k], "title") => BatchNames[k] = VideoName(k)
          /\ script = "Interactive" =>
                \A k \in DOMAIN calls :
                   ~Has(videos[calls[k].rec], "title") =>
                      calls[k].out = VideoName(calls[k].rec)
          /\ (script = "Downloader" /\ source.file = F_DATA) =>
                /\ Len(videos) = Cardinality(KeptPositions)
                /\ \A k \in DOMAIN videos :
                      ~Has(KeptItem(k), "title") =>
                         /\ videos[k].title = VideoTitle(k)
                         /\ BatchNames[k] = VideoName(k))
    /\ [][script = "Advanced" =>
             \A k \in DOMAIN Added :
                Head(Added[k].title) = "V" =>
                   /\ Added[k].title = VideoTitle(k)
                   /\ Added[k].filename \o ExtPlaceholder = VideoName(k)]_vars

\* process_video_data has dropped the first of two records and given the
\* second, which has no title, the title "Video 1".
C18_Witness ==
    /\ script = "Downloader"
    /\ pc = "loop"
    /\ Len(source.doc.items) = 2
    /\ KeptPositions = {2}
    /\ ~Has(source.doc.items[2], "title")
    /\ Len(videos) = 1
    /\ videos[1].title = VideoTitle(1)

(***************************************************************************)
(* Names on a rerun over an edited list.                                   *)
(***************************************************************************)

\* The list without its k-th record.
RemoveAt(list, k) == SubSeq(list, 1, k - 1) \o SubSeq(list, k + 1, Len(list))

\* The number a 3-digit prefix spells.
DigitVal(c) == CHOOSE d \in 0..9 : Digits[d + 1] = c

PrefixNum(name) ==
    100 * DigitVal(name[1]) + 10 * DigitVal(name[2]) + DigitVal(name[3])

\* The out= names among the lines of an aria2c input file.
OutNames(lines) ==
    LET o == SelectSeq(lines, LAMBDA l : l.kind = "out")
    IN  [j \in DOMAIN o |-> o[j].text]

\* The name InteractiveExtractor gives the j-th record of a list.
InteractiveName(list, j) ==
    Filename(j, Get(list[j], "title", VideoN(j))) \o ExtPlaceholder

\* The names a run of the script makes from a list, by record (aria2c
\* writers, InteractiveExtractor) or by kept record (process_video_data).
RerunNames(list) ==
    IF script \in AriaScripts
    THEN OutNames(WriteEntries(script, list, 1).lines)
    ELSE IF script = "Interactive"
    THEN [j \in DOMAIN list |-> InteractiveName(list, j)]
    ELSE LET p == ProcessVideoData([kind |-> "array", items |-> list])
         IN  [j \in DOMAIN p |-> p[j].filename \o ExtPlaceholder]

\* The aria2c input file holds an entry for every record of the list.
AllWritten ==
    /\ script \in AriaScripts
    /\ inputFile.written
    /\ Len(OutLines) = Len(videos)

\* The list of video_data.json that process_video_data was given.
DataItems == DictItems(source.doc)

\* The part of C20 that holds of every script: a name is made of the number
\* of its record and the record's title, whatever else the run has seen.
NamesFromPositionAndTitle ==
    /\ script \in AriaScripts =>
          \A k \in DOMAIN BatchNames :
             BatchNames[k] =
                Filename(k, Get(videos[k], "title", VideoTitle(k)))
                    \o ExtPlaceholder
    /\ script = "Interactive" =>
          \A c \in DOMAIN calls :
             calls[c].out = InteractiveName(videos, calls[c].rec)
    /\ script \in {"Downloader", "Advanced"} =>
          \A k \in DOMAIN videos :
             \E n \in 1..Len(videos) :
                videos[k].filename = Filename(n, videos[k].title)
    /\ (script = "Downloader" /\ source.file = F_DATA) =>
          BatchNames = RerunNames(DataItems)

\* Removing record k of the list lowers by one the prefix of every later
\* record, in the scripts that number by enumerate.
RemovalRenumbersLater ==
    /\ AllWritten =>
          \A k \in DOMAIN videos : \A j \in (k + 1)..Len(videos) :
             PrefixNum(RerunNames(RemoveAt(videos, k))[j - 1])
                = PrefixNum(BatchNames[j]) - 1
    /\ script = "Interactive" =>
          \A k \in DOMAIN videos : \A c \in DOMAIN calls :
             calls[c].rec > k =>
                PrefixNum(InteractiveName(RemoveAt(videos, k),
                                          calls[c].rec - 1))
                   = PrefixNum(calls[c].out) - 1

\* C20 as stated: names are made of list position and title only, and
\* removing the record at position k of the input list lowers the prefix of
\* every later record by one, in process_video_data too.
C20_RemovalLowersEveryLaterPrefix ==
    /\ NamesFromPositionAndTitle
    /\ RemovalRenumbersLater
    /\ (script = "Downloader" /\ source.file = F_DATA) =>
          \A k \in DOMAIN DataItems : \A m \in DOMAIN videos :
             NthOf(KeptPositions, m) > k =>
                LET m2 == IF k \in KeptPositions THEN m - 1 ELSE m
                    re == RerunNames(RemoveAt(DataItems, k))
                IN  PrefixNum(re[m2]) = PrefixNum(BatchNames[m]) - 1

\* C20: names are made of the record's number and title only, so two runs
\* over one list make the same names.  In the aria2c writers and
\* InteractiveExtractor the number is the list position: removing the
\* record at position k lowers the prefix of every later record by one.
\* In process_video_data the number counts the kept records: removing a
\* kept record lowers the prefix of every later kept record by one, and
\* removing a record that was dropped changes no prefix.
C20_RemovalLowersPrefixWhereCounted ==
    /\ NamesFromPositionAndTitle
    /\ RemovalRenumbersLater
    /\ (script = "Downloader" /\ source.file = F_DATA) =>
          \A k \in DOMAIN DataItems : \A m \in DOMAIN videos :
             NthOf(KeptPositions, m) > k =>
                LET d == IF k \in KeptPositions THEN 1 ELSE 0
                    re == RerunNames(RemoveAt(DataItems, k))
                IN  PrefixNum(re[m - d]) = PrefixNum(BatchNames[m]) - d

\* An aria2c input file of two entries, the second numbered 002; written
\* from the list without its first record, that entry is numbered 001.
C20_Witness ==
    /\ AllWritten
    /\ Len(videos) = 2
    /\ PrefixNum(BatchNames[2]) = 2
    /\ PrefixNum(RerunNames(RemoveAt(videos, 1))[1]) = 1
    /\ StemOf(RerunNames(RemoveAt(videos, 1))[1]) = StemOf(BatchNames[2])

(***************************************************************************)
(* advanced_extractor.py: extract_cookies_from_chrome.                     *)
(***************************************************************************)

MaxRows == 2

\* The paths it touches: the Cookies database of the profile, the directory
\* made by tempfile.mkdtemp and the copy in it.
P_COOKIES == "profile/Cookies"

P_TEMPDIR == "tmp"

P_TEMPCOOKIES == "tmp/Cookies"

Paths == {P_COOKIES, P_TEMPDIR, P_TEMPCOOKIES}

\* What is at a path: nothing, a directory, a file that cannot be read, a
\* file that is not a cookie database (sqlite3 raises on the query), or a
\* cookie database with its rows.
Absent == [kind |-> "absent", rows |-> <<>>]

Directory == [kind |-> "dir", rows |-> <<>>]

Unreadable == [kind |-> "unreadable", rows |-> <<>>]

NotCookieDb == [kind |-> "other", rows |-> <<>>]

CookieDb(rows) == [kind |-> "sqlite", rows |-> rows]

\* host_key values, in pieces.
HostGC == <<".", "grantcardone", ".com">>

HostTraining == <<"training", ".site">>

HostOther == <<".", "other", ".com">>

\* Rows of the cookies table: a cookie with a value, the same cookie with
\* its value left empty (the value is in encrypted_value), a cookie of a
\* host with "training" in its name, a cookie of another host.
RowKinds ==
    { [name |-> "sid", value |-> "v", host_key |-> HostGC],
      [name |-> "sid", value |-> "", host_key |-> HostGC],
      [name |-> "t", value |-> "w", host_key |-> HostTraining],
      [name |-> "o", value |-> "z", host_key |-> HostOther] }

RowLists == UNION {[1..n -> RowKinds] : n \in 0..MaxRows}

CookieFiles ==
    {Absent, Unreadable, NotCookieDb} \cup {CookieDb(l) : l \in RowLists}

\* WHERE host_key LIKE '%grantcardone%' OR host_key LIKE '%training%'
HostMatches(h) == \E k \in DOMAIN h : h[k] \in {"grantcardone", "training"}

\* row['host_key'].lstrip('.')
RECURSIVE LStripDots(_)
LStripDots(h) ==
    IF h # <<>> /\ Head(h) = "." THEN LStripDots(Tail(h)) ELSE h

\* session.cookies.set(name, value, domain=domain): the cookie of that name
\* and domain is replaced.
SetNothing(jar, name, value, domain) == jar
SetCookie(jar, name, value, domain) ==
    {c \in jar : ~(c.name = name /\ c.domain = domain)}
        \cup {[name |-> name, value |-> value, domain |-> domain]}

\* shutil.rmtree(dir): the directory and what is in it are gone.
KeepTree(d, dir) == d
RmTree(d, dir) ==
    [p \in DOMAIN d |->
        IF p = dir \/ (dir = P_TEMPDIR /\ p = P_TEMPCOOKIES) THEN Absent
        ELSE d[p]]

FileOp(op, path) == [op |-> op, path |-> path]

\* The jar before the call: empty, or holding a cookie of the site.
InitialJars ==
    { {},
      {[name |-> "sid", value |-> "old",
        domain |-> LStripDots(HostGC)]} }

InitCk ==
    /\ ckPc = "start"
    /\ chrome_profile_dir \in {"none", "profile"}
    /\ \E f \in CookieFiles :
          disk = [p \in Paths |-> IF p = P_COOKIES THEN f ELSE Absent]
    /\ ops = <<>>
    /\ cursor = <<>>
    /\ cookies_found = FALSE
    /\ ckResult = "none"
    /\ headers = <<>>
    /\ cookies \in InitialJars
    /\ SanIdle
    /\ DdIdle
    /\ RunIdle
    /\ DbgIdle
    /\ AuthIdle
    /\ ShIdle

\* Lines 69-73: find_chrome_profile when no profile is known; without a
\* profile the function returns False.
CK_FindProfile ==
    /\ ckPc = "start"
    /\ IF chrome_profile_dir # "none"
       THEN /\ ckPc' = "copy"
            /\ UNCHANGED <<chrome_profile_dir, ops, ckResult>>
       ELSE /\ ops' = Append(ops, FileOp("exists", P_COOKIES))
            /\ IF disk[P_COOKIES].kind # "absent"
               THEN /\ chrome_profile_dir' = "profile"
                    /\ ckPc' = "copy"
                    /\ UNCHANGED ckResult
               ELSE /\ ckResult' = "False"
                    /\ ckPc' = "done"
                    /\ UNCHANGED chrome_profile_dir
    /\ UNCHANGED <<disk, cursor, cookies_found, sessVars, dbgVars, authVars,
                   shVars, sanVars, ddVars, runVars>>

\* Lines 78-82: tempfile.mkdtemp, then shutil.copy2 inside the try.
CK_Copy ==
    /\ ckPc = "copy"
    /\ LET made == [disk EXCEPT ![P_TEMPDIR] = Directory]
           tried == ops \o <<FileOp("mkdtemp", P_TEMPDIR),
                             FileOp("read", P_COOKIES)>>
       IN  IF disk[P_COOKIES].kind \in {"absent", "unreadable"}
           THEN /\ disk' = made
                /\ ops' = tried
                /\ ckPc' = "except"
           ELSE /\ disk' = [made EXCEPT ![P_TEMPCOOKIES] = disk[P_COOKIES]]
                /\ ops' = Append(tried, FileOp("write", P_TEMPCOOKIES))
                /\ ckPc' = "query"
    /\ UNCHANGED <<chrome_profile_dir, cursor, cookies_found, ckResult,
                   sessVars, dbgVars, authVars, shVars, sanVars, ddVars,
                   runVars>>

\* Lines 85-96: sqlite3.connect on the copy, the SELECT, fetchall.
CK_Query ==
    /\ ckPc = "query"
    /\ ops' = Append(ops, FileOp("connect", P_TEMPCOOKIES))
    /\ IF disk[P_TEMPCOOKIES].kind # "sqlite"
       THEN /\ ckPc' = "except"
            /\ UNCHANGED <<cursor, cookies_found>>
       ELSE /\ cursor' = SelectSeq(disk[P_TEMPCOOKIES].rows,
                                   LAMBDA r : HostMatches(r.host_key))
            /\ cookies_found' = FALSE
            /\ ckPc' = "rows"
    /\ UNCHANGED <<chrome_profile_dir, disk, ckResult, sessVars, dbgVars,
                   authVars, shVars, sanVars, ddVars, runVars>>

\* Lines 96-104: one row of the loop.
CK_Row ==
    /\ ckPc = "rows"
    /\ cursor # <<>>
    /\ LET row == Head(cursor)
       IN  IF row.value # ""
           THEN /\ cookies' = SetCookie(cookies, row.name, row.value,
                                        LStripDots(row.host_key))
                /\ cookies_found' = TRUE
           ELSE UNCHANGED <<cookies, cookies_found>>
    /\ cursor' = Tail(cursor)
    /\ UNCHANGED <<ckPc, chrome_profile_dir, disk, ops, ckResult, headers,
                   dbgVars, authVars, shVars, sanVars, ddVars, runVars>>

\* Lines 106-109: conn.close, shutil.rmtree, return cookies_found.
CK_Close ==
    /\ ckPc = "rows"
    /\ cursor = <<>>
    /\ disk' = RmTree(disk, P_TEMPDIR)
    /\ ops' = Append(ops, FileOp("rmtree", P_TEMPDIR))
    /\ ckResult' = IF cookies_found THEN "True" ELSE "False"
    /\ ckPc' = "done"
    /\ UNCHANGED <<chrome_profile_dir, cursor, cookies_found, sessVars,
                   dbgVars, authVars, shVars, sanVars, ddVars, runVars>>

\* Lines 111-115: except Exception removes the directory if it is there
\* and returns False.
CK_Except ==
    /\ ckPc = "except"
    /\ IF disk[P_TEMPDIR].kind # "absent"
       THEN /\ disk' = RmTree(disk, P_TEMPDIR)
            /\ ops' = ops \o <<FileOp("exists", P_TEMPDIR),
                               FileOp("rmtree", P_TEMPDIR)>>
       ELSE /\ ops' = Append(ops, FileOp("exists", P_TEMPDIR))
            /\ UNCHANGED disk
    /\ ckResult' = "False"
    /\ ckPc' = "done"
    /\ UNCHANGED <<chrome_profile_dir, cursor, cookies_found, sessVars,
                   dbgVars, authVars, shVars, sanVars, ddVars, runVars>>

NextCk ==
    \/ CK_FindProfile
    \/ CK_Copy
    \/ CK_Query
    \/ CK_Row
    \/ CK_Close
    \/ CK_Except

SpecCk == InitCk /\ [][NextCk]_vars

\* The operations made on a path.
OpsOn(path) == {ops[k].op : k \in {j \in DOMAIN ops : ops[j].path = path}}

\* C21: extract_cookies_from_chrome only looks at and reads the Cookies
\* file of the profile and never changes it; sqlite3 is connected to the
\* temporary copy only; and whenever the function has returned, by the
\* normal path or through its except clause, the temporary directory and
\* the copy are gone.
C21_ReadOnlyOnTempCopy ==
    /\ [](/\ OpsOn(P_COOKIES) \subseteq {"exists", "read"}
          /\ \A k \in DOMAIN ops :
                ops[k].op = "connect" => ops[k].path = P_TEMPCOOKIES
          /\ ckResult # "none" =>
                /\ disk[P_TEMPDIR] = Absent
                /\ disk[P_TEMPCOOKIES] = Absent)
    /\ [][disk'[P_COOKIES] = disk[P_COOKIES]]_vars

\* The query failed on a file that is not a cookie database: the function
\* has returned False through its except clause, after the temporary
\* directory had been made and the file copied into it.
C21_Witness ==
    /\ ckResult = "False"
    /\ disk[P_COOKIES] = NotCookieDb
    /\ \E k \in DOMAIN ops : ops[k] = FileOp("write", P_TEMPCOOKIES)
    /\ ops[Len(ops)] = FileOp("rmtree", P_TEMPDIR)
    /\ disk[P_TEMPDIR] = Absent

\* The rows of the profile's database that the query selects and that
\* have a value, and the cookie a row makes.
Loadable ==
    {r \in {disk[P_COOKIES].rows[k] : k \in DOMAIN disk[P_COOKIES].rows} :
        HostMatches(r.host_key) /\ r.value # ""}

CookieOf(r) ==
    [name |-> r.name, value |-> r.value, domain |-> LStripDots(r.host_key)]

\* C22: extract_cookies_from_chrome returns True exactly when a selected
\* row has a non-empty value, and then the cookies of those rows are in the
\* jar; the jar changes only by the cookie of a row with a non-empty value,
\* so when it returns False the jar is as it was.
C22_TrueIffCookieLoaded ==
    /\ [](ckResult # "none" =>
            /\ ckResult = "True" <=> Loadable # {}
            /\ \A r \in Loadable : CookieOf(r) \in cookies
            /\ \A c \in cookies : c.value # ""
            /\ ckResult = "False" => cookies \in InitialJars)
    /\ [][cookies' # cookies =>
            /\ ckPc = "rows"
            /\ cursor # <<>>
            /\ Head(cursor).value # ""
            /\ cookies' =
                  {c \in cookies :
                      \/ c.name # Head(cursor).name
                      \/ c.domain # LStripDots(Head(cursor).host_key)}
                  \cup {CookieOf(Head(cursor))}
            /\ cookies_found']_vars

\* Every selected row has an empty value: the loop has run over a row, the
\* function has returned False and the jar still holds what it held.
C22_Witness ==
    /\ ckResult = "False"
    /\ disk[P_COOKIES].kind = "sqlite"
    /\ \E k \in DOMAIN disk[P_COOKIES].rows :
          /\ HostMatches(disk[P_COOKIES].rows[k].host_key)
          /\ disk[P_COOKIES].rows[k].value = ""
    /\ Loadable = {}
    /\ cookies # {}
    /\ cookies \in InitialJars

(***************************************************************************)
(* advanced_extractor.py: get_auth_tokens_via_debugging and                *)
(* start_debugging_chrome, which call each other.  Each call is a frame;   *)
(* the interpreter raises RecursionError in the caller when a call would   *)
(* go beyond its recursion limit (1000 by default, RecursionLimit here),   *)
(* and RecursionError is an Exception: the caller's except clause catches  *)
(* it.                                                                     *)
(***************************************************************************)

RecursionLimit == 8

\* What the request to http://localhost:9222/json brings: an exception
\* (nothing listens, a timeout, a body that is not JSON), a status other
\* than 200, or a list of tabs without a tab of the site, with one, or with
\* one that has no webSocketDebuggerUrl.
Answers == {"exception", "non200", "no_tab", "tab", "tab_without_ws"}

\* What start_debugging_chrome meets: pkill and Chrome are there, or a
\* program is missing and subprocess raises FileNotFoundError.
Launches == {"ok", "no_pkill", "no_chrome"}

InitDbg ==
    /\ dbgPc = "get"
    /\ frames = <<"get">>
    /\ relaunches = 0
    /\ dbgRaised = "none"
    /\ dbgResult = "none"
    /\ chrome_profile_dir \in {"none", "profile"}
    /\ ckPc = "idle"
    /\ disk = <<>>
    /\ ops = <<>>
    /\ cursor = <<>>
    /\ cookies_found = FALSE
    /\ ckResult = "none"
    /\ SessIdle
    /\ SanIdle
    /\ DdIdle
    /\ RunIdle
    /\ AuthIdle
    /\ ShIdle

\* A call made inside a try block: a new frame, or RecursionError caught
\* by the caller, which then returns {}.
CallFrom(callee) ==
    IF Len(frames) >= RecursionLimit
    THEN /\ dbgRaised' = "RecursionError"
         /\ dbgPc' = "return"
         /\ UNCHANGED frames
    ELSE /\ frames' = Append(frames, callee)
         /\ dbgPc' = callee
         /\ UNCHANGED dbgRaised

\* get_auth_tokens_via_debugging, lines 136-151.
DBG_Poll ==
    /\ dbgPc = "get"
    /\ \E a \in Answers :
          CASE a = "exception" ->
                  /\ dbgRaised' = "RequestException"
                  /\ dbgPc' = "return"
                  /\ UNCHANGED frames
            [] a = "non200" -> CallFrom("start")
            [] OTHER ->
                  \* return {} or return extract_tokens_from_tab(tab),
                  \* which prints instructions and returns {}
                  /\ dbgPc' = "return"
                  /\ UNCHANGED <<frames, dbgRaised>>
    /\ UNCHANGED <<relaunches, dbgResult, sessVars, ckVars, authVars, shVars,
                   sanVars, ddVars, runVars>>

\* start_debugging_chrome, lines 155-184: pkill, Popen of Chrome with
\* --remote-debugging-port, then get_auth_tokens_via_debugging again.
DBG_Start ==
    /\ dbgPc = "start"
    /\ \E l \in Launches :
          IF l = "ok"
          THEN /\ relaunches' = relaunches + 1
               /\ CallFrom("get")
          ELSE /\ dbgRaised' = "FileNotFoundError"
               /\ dbgPc' = "return"
               /\ UNCHANGED <<frames, relaunches>>
    /\ UNCHANGED <<dbgResult, sessVars, ckVars, authVars, shVars, sanVars,
                   ddVars, runVars>>

\* The innermost call returns {}; its caller returns what it got.
DBG_Return ==
    /\ dbgPc = "return"
    /\ frames' = SubSeq(frames, 1, Len(frames) - 1)
    /\ IF Len(frames) = 1
       THEN /\ dbgResult' = "{}"
            /\ dbgPc' = "done"
       ELSE UNCHANGED <<dbgResult, dbgPc>>
    /\ UNCHANGED <<relaunches, dbgRaised, sessVars, ckVars, authVars, shVars,
                   sanVars, ddVars, runVars>>

NextDbg == DBG_Poll \/ DBG_Start \/ DBG_Return

SpecDbg == InitDbg /\ [][NextDbg]_vars

\* The request has timeout=5, the sleeps are of 2 and 5 seconds, and pkill
\* ends by itself: every step of the two functions is taken in the end.
SpecDbgLive == SpecDbg /\ WF_vars(NextDbg)

CountingScripts == {"Downloader", "Interactive"}

\* The lesson links among the first k records, which InteractiveExtractor
\* passes over; GrantCardoneDownloader passes over nothing.
SkippedAmong(k) == Cardinality({n \in 1..k : Skipped(n)})

\* C26: in the loops of GrantCardoneDownloader and InteractiveExtractor,
\* when i records have been handled the success counter, the failure
\* counter and the number of lesson links passed over add up to i; when
\* the summary is printed they add up to the length of the list.
C26_CountersAccountForEveryRecord ==
    script \in CountingScripts =>
        /\ pc \in {"loop", "wait"} =>
              successful + failed + SkippedAmong(i) = i
        /\ "DOWNLOAD SUMMARY" \in printed =>
              successful + failed + SkippedAmong(Len(videos)) = Len(videos)
        /\ script = "Downloader" => SkippedAmong(Len(videos)) = 0

\* InteractiveExtractor has printed its summary after a list of a lesson
\* link and a record whose download failed.
C26_Witness ==
    /\ script = "Interactive"
    /\ "DOWNLOAD SUMMARY" \in printed
    /\ Len(videos) = 2
    /\ SkippedAmong(2) = 1
    /\ failed = 1
    /\ successful = 0

(***************************************************************************)
(* The order of the stages in GrantCardoneMaster.run.                      *)
(***************************************************************************)

\* What the run has printed tells which functions ran: download_videos
\* prints its banner first, check_stage2_complete and check_stage1_complete
\* print what they return, the instructions print their headings.
DownloadInvoked ==
    "DOWNLOAD STAGE: N videos with 16 parallel streams" \in printed

Stage2Returned == "Stage 2 complete: N videos found" \in printed

Stage2FoundNothing == "Stage 2 data not found or invalid" \in printed

Stage1Returned == "Stage 1 complete: N courses found" \in printed

Stage1Shown == "STAGE 1: Extract Course Links" \in printed

Stage2Shown == "STAGE 2: Extract Video URLs" \in printed

\* C24: in GrantCardoneMaster.run, download_videos is invoked exactly when
\* check_stage2_complete returned a non-empty list, at once or after the
\* stage-2 instructions; neither kind of instructions is shown unless the
\* first check_stage2_complete found nothing; and the stage-2 instructions
\* are shown only after check_stage1_complete returned a non-empty course
\* list.
C24_StagesInOrder ==
    script = "Master" =>
        /\ DownloadInvoked => Stage2Returned /\ videos # <<>>
        /\ Stage2Returned => DownloadInvoked \/ pc = "download"
        /\ pc = "download" => Stage2Returned /\ ~DownloadInvoked
        /\ (pc = "done" /\ ~Stage2Returned) => calls = <<>>
        /\ (Stage1Shown \/ Stage2Shown) => Stage2FoundNothing
        /\ (Stage2Returned /\ ~Stage2FoundNothing) =>
              ~Stage1Shown /\ ~Stage2Shown
        /\ Stage2Shown => Stage1Returned /\ fs[F_COURSES] = "nonempty"

\* The first check found nothing, the courses were there, the stage-2
\* instructions were shown, the second check returned videos and
\* download_videos has been invoked.
C24_Witness ==
    /\ script = "Master"
    /\ Stage2FoundNothing
    /\ Stage2Shown
    /\ ~Stage1Shown
    /\ Stage2Returned
    /\ DownloadInvoked

(***************************************************************************)
(* The two loaders of the aria2c scripts side by side.                     *)
(***************************************************************************)

\* The four states of a video file that the two loaders are compared on.
FourStates == {"absent", "malformed", "empty", "nonempty"}

\* The file whose list is to be downloaded: the complete file when it holds
\* videos, otherwise the videos file when it does.
UsableFile(cc, cv) ==
    IF cc = "nonempty" THEN F_COMPLETE
    ELSE IF cv = "nonempty" THEN F_VIDEOS
    ELSE "none"

\* C25: for each of the sixteen combinations of states of the two files,
\* a run of GrantCardoneMaster and a run of QuickStart that have looked at
\* them work on the same list: that of the complete file when it holds
\* videos, otherwise that of the videos file, and no list when neither
\* does.
C25_LoadersSelectTheSameList ==
    (/\ script \in {"Master", "QuickStart"}
     /\ pc \notin {"start", "stage1", "input1", "input2"}
     /\ fs[F_COMPLETE] \in FourStates
     /\ fs[F_VIDEOS] \in FourStates) =>
        LET file == UsableFile(fs[F_COMPLETE], fs[F_VIDEOS])
        IN  IF file = "none" THEN videos = <<>>
            ELSE /\ source.file = file
                 /\ videos = source.doc.items
                 /\ videos # <<>>

(***************************************************************************)
(* The order and the numbers of the records built from a document.         *)
(***************************************************************************)

\* The URLs of a response in pre-order: an object's own URL, then those of
\* the objects nested in it, then those of the objects after it.
RECURSIVE PreOrderUrls(_)
PreOrderUrls(items) ==
    IF items = <<>> THEN <<>>
    ELSE LET item == Head(items)
             own == IF FirstUrl(item, UrlKeys, "") # ""
                    THEN <<FirstUrl(item, UrlKeys, "")>>
                    ELSE <<>>
             nested == IF Has(item, "lessons")
                       THEN PreOrderUrls(item.lessons)
                       ELSE <<>>
         IN  own \o nested \o PreOrderUrls(Tail(items))

\* The responses extract_videos_from_response is given.
ApiResponses ==
    DocsOf("array", ApiItems) \cup DocsOf("nonempty", ApiItems)

UrlsOf(records) == [k \in DOMAIN records |-> records[k].url]

\* The k-th record of the list has the number k in its name.
NumberedFromOne(records) ==
    \A k \in DOMAIN records : PrefixNum(records[k].filename) = k

\* C27: the list process_video_data builds holds the records with a
\* non-empty src in the order of the input, and the list
\* extract_videos_from_response builds holds the objects with a URL in
\* pre-order; in both the k-th record (from 1) carries the number k,
\* whatever was dropped before it.
C27_ConsecutivePrefixesInInputOrder ==
    /\ [](/\ (script = "Downloader" /\ source.file = F_DATA) =>
                /\ NumberedFromOne(videos)
                /\ Len(videos) = Cardinality(KeptPositions)
                /\ \A k \in DOMAIN videos : videos[k].url = KeptItem(k).src
          /\ (script = "Advanced" /\ pc = "start") =>
                \A data \in ApiResponses :
                   LET out == ExtractVideosFromResponse(data)
                   IN  /\ NumberedFromOne(out)
                       /\ UrlsOf(out) = PreOrderUrls(data.items))
    /\ [][script = "Advanced" =>
             /\ NumberedFromOne(Added)
             /\ \E data \in ApiResponses :
                   /\ Added = ExtractVideosFromResponse(data)
                   /\ UrlsOf(Added) = PreOrderUrls(data.items)]_vars

\* extract_videos_from_response was given a course without a URL that
\* nests a lesson, followed by a video: the lesson is numbered 001 and the
\* video 002.
C27_Witness ==
    /\ script = "Advanced"
    /\ Len(videos) = 2
    /\ videos[1].url = "u3"
    /\ videos[2].url = "u1"
    /\ PrefixNum(videos[1].filename) = 1
    /\ PrefixNum(videos[2].filename) = 2

(***************************************************************************)
(* AutomatedScraper.run: the page script or the download.                  *)
(***************************************************************************)

\* load_complete_data has returned, with a list of videos or with none.
LoadReturnedVideos == source.class = "nonempty"

LoadReturnedNone == source.class \in {"absent", "malformed", "empty"}

\* subprocess.run was called for aria2c, whether or not it could start it.
Aria2cStarted == \E k \in DOMAIN calls : calls[k].cmd = "aria2c"

\* C28: in a run of AutomatedScraper past load_complete_data,
\* complete_automation.js is written exactly when the loader returned no
\* videos, aria2c is started exactly when it returned a non-empty list,
\* and never both.
C28_ScriptFileOrDownload ==
    (script = "Scraper" /\ pc # "start") =>
        /\ ~(jsWritten /\ Aria2cStarted)
        /\ jsWritten <=> LoadReturnedNone
        /\ Aria2cStarted <=> LoadReturnedVideos

(***************************************************************************)
(* Two runs of the aria2c scripts in one directory.  Each run writes       *)
(* aria2.conf and aria2_downloads.txt with open(path, 'w'), which empties  *)
(* the file at once and holds the text until the with block ends, and then *)
(* starts aria2c, which reads the two files by name.  Nothing locks the    *)
(* files.                                                                  *)
(***************************************************************************)

MaxShared == 1

Runs == {1, 2}

\* The first line of the configuration text each script writes.
ConfMissing(s) == "absent"
ConfText(s) ==
    IF s = "Master"
    THEN "# Grant Cardone Ultra-Fast Downloader Configuration"
    ELSE IF s = "QuickStart"
    THEN "# Grant Cardone Ultra-Fast Configuration"
    ELSE "# Grant Cardone Video Downloader Configuration"

\* The lists the runs were given: records with a url.
SharedItems == {v \in UrlItems : Has(v, "url") /\ ~Has(v, "type")}

SharedLists == UNION {[1..n -> SharedItems] : n \in 1..MaxShared}

\* A run: its script, its list, where it is, and whether the other run
\* wrote in the directory after this run's first write and before its
\* aria2c started.
Run(s, l) == [script |-> s, list |-> l, pc |-> "start", disturbed |-> FALSE]

NothingRead == [read |-> FALSE, conf |-> "absent", input |-> <<>>]

InitShared ==
    /\ shRuns \in [Runs -> {Run(s, l) : s \in AriaScripts, l \in SharedLists}]
    /\ dirConf = "absent"
    /\ dirInput = <<>>
    /\ aria2cRead = [r \in Runs |-> NothingRead]
    /\ SessIdle
    /\ CkIdle
    /\ DbgIdle
    /\ AuthIdle
    /\ SanIdle
    /\ DdIdle
    /\ RunIdle

\* The positions at which a run has written and its aria2c has not started.
Writing == {"conf_open", "conf", "input_open", "input"}

\* Run r goes to position p by writing: a run that is in the middle of its
\* own writes is disturbed by it.
AfterWrite(r, p) ==
    [q \in Runs |->
        IF q = r THEN [shRuns[q] EXCEPT !.pc = p]
        ELSE IF shRuns[q].pc \in Writing
        THEN [shRuns[q] EXCEPT !.disturbed = TRUE]
        ELSE shRuns[q]]

\* create_aria2_config / setup_aria2c: open(config_path, 'w').
SH_OpenConf(r) ==
    /\ shRuns[r].pc = "start"
    /\ dirConf' = "empty"
    /\ shRuns' = AfterWrite(r, "conf_open")
    /\ UNCHANGED <<dirInput, aria2cRead>>

\* ... f.write(config) and the end of the with block.
SH_CloseConf(r) ==
    /\ shRuns[r].pc = "conf_open"
    /\ dirConf' = ConfText(shRuns[r].script)
    /\ shRuns' = AfterWrite(r, "conf")
    /\ UNCHANGED <<dirInput, aria2cRead>>

\* create_aria2_input_file / download_with_aria2c: open(input_file, 'w').
SH_OpenInput(r) ==
    /\ shRuns[r].pc = "conf"
    /\ dirInput' = <<>>
    /\ shRuns' = AfterWrite(r, "input_open")
    /\ UNCHANGED <<dirConf, aria2cRead>>

\* ... the entries and the end of the with block.
SH_CloseInput(r) ==
    /\ shRuns[r].pc = "input_open"
    /\ dirInput' = WriteEntries(shRuns[r].script, shRuns[r].list, 1).lines
    /\ shRuns' = AfterWrite(r, "input")
    /\ UNCHANGED <<dirConf, aria2cRead>>

\* subprocess.run(['aria2c', '--conf-path=...', '--input-file=...']):
\* aria2c reads what the two files hold now.
SH_Spawn(r) ==
    /\ shRuns[r].pc = "input"
    /\ aria2cRead' = [aria2cRead EXCEPT
                         ![r] = [read |-> TRUE, conf |-> dirConf,
                                 input |-> dirInput]]
    /\ shRuns' = [shRuns EXCEPT ![r].pc = "wait"]
    /\ UNCHANGED <<dirConf, dirInput>>

\* aria2c ends.
SH_Exit(r) ==
    /\ shRuns[r].pc = "wait"
    /\ shRuns' = [shRuns EXCEPT ![r].pc = "done"]
    /\ UNCHANGED <<dirConf, dirInput, aria2cRead>>

NextShared ==
    /\ \E r \in Runs :
          \/ SH_OpenConf(r)
          \/ SH_CloseConf(r)
          \/ SH_OpenInput(r)
          \/ SH_CloseInput(r)
          \/ SH_Spawn(r)
          \/ SH_Exit(r)
    /\ UNCHANGED <<sessVars, ckVars, dbgVars, authVars, sanVars, ddVars,
                   runVars>>

SpecShared == InitShared /\ [][NextShared]_vars

\* What run r wrote, or was to write, into the two files.
OwnConf(r) == ConfText(shRuns[r].script)

OwnInput(r) == WriteEntries(shRuns[r].script, shRuns[r].list, 1).lines

\* C29 as stated: the aria2c of a run reads the aria2.conf and the
\* aria2_downloads.txt that this run wrote, however the two runs are
\* interleaved.
C29_ReadsOwnFilesAlways ==
    \A r \in Runs :
       aria2cRead[r].read =>
          /\ aria2cRead[r].conf = OwnConf(r)
          /\ aria2cRead[r].input = OwnInput(r)

\* C29: the aria2c of a run reads the aria2.conf and the
\* aria2_downloads.txt that this run wrote when the other run did not write
\* in the directory between this run's first write and the start of its
\* aria2c, as is the case when the runs are serial.  Otherwise it reads
\* what the files hold when it starts: a configuration that one of the two
\* runs wrote or has just emptied, and entries of this run or of the other.
C29_ReadsOwnFilesWhenSerial ==
    \A r \in Runs :
       aria2cRead[r].read =>
          /\ ~shRuns[r].disturbed =>
                /\ aria2cRead[r].conf = OwnConf(r)
                /\ aria2cRead[r].input = OwnInput(r)
          /\ aria2cRead[r].conf
                \in {"empty"} \cup {ConfText(shRuns[q].script) : q \in Runs}
          /\ aria2cRead[r].conf # "absent"
          /\ aria2cRead[r].input
                \in {<<>>} \cup {OwnInput(q) : q \in Runs}

\* Run 1 wrote its files, run 2 then wrote its own and started its aria2c,
\* and the aria2c of run 1 started after that: run 2 read its own files,
\* run 1 read those of run 2.
C29_Witness ==
    /\ aria2cRead[1].read
    /\ aria2cRead[2].read
    /\ ~shRuns[2].disturbed
    /\ aria2cRead[2].conf = OwnConf(2)
    /\ aria2cRead[2].input = OwnInput(2)
    /\ shRuns[1].disturbed
    /\ OwnConf(1) # OwnConf(2)
    /\ aria2cRead[1].conf = OwnConf(2)
    /\ aria2cRead[1].input = OwnInput(2)

(***************************************************************************)
(* advanced_extractor.py: load_auth_tokens.                                *)
(***************************************************************************)

MaxTokens == 2

\* JSON values: strings (sequences of characters) and numbers.
Str(t) == [kind |-> "str", text |-> t, num |-> 0]

Num(n) == [kind |-> "num", text |-> <<>>, num |-> n]

\* "if value": an empty string and 0 are false.
Truthy(v) == IF v.kind = "str" THEN v.text # <<>> ELSE v.num # 0

Bearer == <<"B", "e", "a", "r", "e", "r", " ">>

\* str.startswith
StartsWith(t, p) == Len(t) >= Len(p) /\ SubSeq(t, 1, Len(p)) = p

\* The value the Authorization header is given for a token (lines 290-293).
WithoutBearer(t) == t
WithBearer(t) == IF StartsWith(t, Bearer) THEN t ELSE Bearer \o t

\* localStorage keys, in pieces, and 'token' in key.lower().
KeyAuthToken == <<"auth", "Token">>

KeyUser == <<"user">>

Lower(piece) == IF piece = "Token" THEN "token" ELSE piece

IsTokenKey(key) == \E k \in DOMAIN key : Lower(key[k]) = "token"

Item(k, v) == [key |-> k, value |-> v]

\* The values a stored token can have: empty, a bare token, a token that
\* has the prefix, the word Bearer alone, a number.
TokenValues ==
    { Str(<<>>), Str(<<"x">>), Str(Bearer \o <<"x">>),
      Str(<<"B", "e", "a", "r", "e", "r">>), Num(5) }

LocalStorageItems ==
    {Item(k, v) : k \in {KeyAuthToken, KeyUser}, v \in TokenValues}

\* The three sections of grantcardone_auth.json; a section that is not
\* there is like an empty one.
HeaderSections ==
    { <<>>,
      <<Item("Authorization", Str(<<"x">>))>>,
      <<Item("X-CSRF", Str(<<>>))>> }

\* Cookie values are kept whole, as in the jar.
CookieSections == {<<>>, <<Item("sid", "s")>>, <<Item("sid", "")>>}

LocalStorageSections ==
    UNION {[1..n -> LocalStorageItems] : n \in 0..MaxTokens}

AuthDocs ==
    { [headers |-> h, cookies |-> c, localStorage |-> l] :
        h \in HeaderSections, c \in CookieSections,
        l \in LocalStorageSections }

NoTokens == [headers |-> <<>>, cookies |-> <<>>, localStorage |-> <<>>]

\* session.headers before the call: those of __init__, or with an
\* Authorization header already there.
InitialHeaders ==
    { [k \in {"User-Agent"} |-> Str(<<"M">>)],
      [k \in {"User-Agent", "Authorization"} |->
          IF k = "User-Agent" THEN Str(<<"M">>)
          ELSE Str(Bearer \o <<"o">>)] }

\* session.headers[key] = value
SetHeader(h, key, value) ==
    [k \in DOMAIN h \cup {key} |-> IF k = key THEN value ELSE h[k]]

\* The loops over a section: the items with a true value are applied.
RECURSIVE ApplyHeaders(_, _)
ApplyHeaders(h, items) ==
    IF items = <<>> THEN h
    ELSE ApplyHeaders(IF Truthy(Head(items).value)
                      THEN SetHeader(h, Head(items).key, Head(items).value)
                      ELSE h,
                      Tail(items))

RECURSIVE ApplyCookies(_, _)
ApplyCookies(jar, items) ==
    IF items = <<>> THEN jar
    ELSE LET it == Head(items)
             both == SetCookie(
                         SetCookie(jar, it.key, it.value,
                                   <<".", "grantcardone", ".com">>),
                         it.key, it.value,
                         <<".", "training", ".grantcardone", ".com">>)
         IN  ApplyCookies(IF it.value # "" THEN both ELSE jar,
                          Tail(items))

InitAuth ==
    /\ authPc = "start"
    /\ authFile \in {"absent", "malformed", "object"}
    /\ tokens \in (IF authFile = "object" THEN AuthDocs ELSE {NoTokens})
    /\ todo = <<>>
    /\ authResult = "none"
    /\ authExc = "none"
    /\ headers \in InitialHeaders
    /\ cookies \in InitialJars
    /\ CkIdle
    /\ DbgIdle
    /\ ShIdle
    /\ SanIdle
    /\ DdIdle
    /\ RunIdle

\* Lines 270-271 and 298-303: open and json.load, with the two except
\* clauses.
LA_Open ==
    /\ authPc = "start"
    /\ IF authFile = "object"
       THEN /\ authPc' = "headers"
            /\ UNCHANGED authResult
       ELSE /\ authResult' = "False"
            /\ authPc' = "done"
    /\ UNCHANGED <<authFile, tokens, todo, authExc, sessVars, ckVars,
                   dbgVars, shVars, sanVars, ddVars, runVars>>

\* Lines 274-277.
LA_Headers ==
    /\ authPc = "headers"
    /\ headers' = ApplyHeaders(headers, tokens.headers)
    /\ authPc' = "cookies"
    /\ UNCHANGED <<authFile, tokens, todo, authResult, authExc, cookies,
                   ckVars, dbgVars, shVars, sanVars, ddVars, runVars>>

\* Lines 280-284.
LA_Cookies ==
    /\ authPc = "cookies"
    /\ cookies' = ApplyCookies(cookies, tokens.cookies)
    /\ todo' = tokens.localStorage
    /\ authPc' = "localStorage"
    /\ UNCHANGED <<authFile, tokens, authResult, authExc, headers, ckVars,
                   dbgVars, shVars, sanVars, ddVars, runVars>>

\* Lines 288-293: one item of localStorage.  value.startswith of a number
\* raises AttributeError, which no except clause of the function catches.
LA_Item ==
    /\ authPc = "localStorage"
    /\ todo # <<>>
    /\ LET it == Head(todo)
       IN  IF IsTokenKey(it.key) /\ Truthy(it.value)
           THEN IF it.value.kind # "str"
                THEN /\ authExc' = "AttributeError"
                     /\ authPc' = "crashed"
                     /\ UNCHANGED headers
                ELSE /\ headers' = SetHeader(headers, "Authorization",
                                         Str(WithBearer(it.value.text)))
                     /\ UNCHANGED <<authExc, authPc>>
           ELSE UNCHANGED <<headers, authExc, authPc>>
    /\ todo' = Tail(todo)
    /\ UNCHANGED <<authFile, tokens, authResult, cookies, ckVars, dbgVars,
                   shVars, sanVars, ddVars, runVars>>

\* Lines 295-296.
LA_Return ==
    /\ authPc = "localStorage"
    /\ todo = <<>>
    /\ authResult' = "True"
    /\ authPc' = "done"
    /\ UNCHANGED <<authFile, tokens, todo, authExc, sessVars, ckVars,
                   dbgVars, shVars, sanVars, ddVars, runVars>>

NextAuth == LA_Open \/ LA_Headers \/ LA_Cookies \/ LA_Item \/ LA_Return

SpecAuth == InitAuth /\ [][NextAuth]_vars

\* C30: load_auth_tokens returns False only for a file that is missing or
\* is not JSON, and the headers and the jar of the session change only in
\* calls that read a JSON file, which never return False; and each time
\* the loop over localStorage changes the headers, it has set Authorization
\* to a string that begins with "Bearer ".
C30_FalseLeavesSessionBearerPrefixed ==
    /\ [](/\ authResult = "False" => authFile \in {"absent", "malformed"}
          /\ authFile \in {"absent", "malformed"} =>
                /\ headers \in InitialHeaders
                /\ cookies \in InitialJars)
    /\ [][(headers' # headers \/ cookies' # cookies) =>
             /\ authFile = "object"
             /\ authResult' # "False"]_vars
    /\ [][(authPc = "localStorage" /\ headers' # headers) =>
             /\ \A k \in DOMAIN headers \ {"Authorization"} :
                   headers'[k] = headers[k]
             /\ headers'["Authorization"].kind = "str"
             /\ Len(headers'["Authorization"].text) >= 7
             /\ SubSeq(headers'["Authorization"].text, 1, 7)
                   = <<"B", "e", "a", "r", "e", "r", " ">>]_vars

\* The call has returned True after a stored token x: the Authorization
\* header is "Bearer x".
C30_Witness ==
    /\ authResult = "True"
    /\ tokens.localStorage = <<Item(KeyAuthToken, Str(<<"x">>))>>
    /\ headers["Authorization"].text
          = <<"B", "e", "a", "r", "e", "r", " ", "x">>

====
